---- MODULE Spec2Model ----
(***************************************************************************)
(* Model of the debugger's WriteMemory builder (debugger/src/writemem.rs)  *)
(* and of the systrace byte formatter that reads tracee memory             *)
(* (debugger/src/systrace.rs).                                             *)
(*                                                                         *)
(* The tracee is a byte-addressed memory of NumPages pages; each page is   *)
(* mapped read-write ("rw"), mapped read-only ("r") or not mapped          *)
(* ("unmapped").  The debugger's own memory is the array Local.  Machine   *)
(* word and page size are scaled down (a 16-bit word, a 4-byte page).      *)
(***************************************************************************)
EXTENDS Integers, Sequences, FiniteSets, TLC

\* size_of::<usize>() of the modelled target
WORD_SIZE == 2
\* crate::memory::PAGE_SIZE
PAGE_SIZE == 4

\* number of pages of the tracee's address space
NumPages == 2
\* bytes of debugger memory that back the scheduled values
LocalSize == 4
\* number of write / write_slice calls on one builder
MaxWrites == 2
\* longest op handed to into_word_sized_ops on its own
MaxOpLen == 7
\* largest len argument given to format_bytes_u8
MaxFmtLen == 21
\* element sizes of the slices given to write_slice
MaxElem == 2
\* number of apply() calls (builders) that follow one another
MaxApplies == 2
\* number of ops handed to write_process_vm on its own
MaxBulkOps == 3
\* largest value of a syscall argument given to decode
MaxArg == 3

MemSize == NumPages * PAGE_SIZE
Addr == 0 .. (MemSize - 1)
Page == 0 .. (NumPages - 1)
Perm == {"rw", "r", "unmapped"}

Min(a, b) == IF a < b THEN a ELSE b

PageOf(a) == a \div PAGE_SIZE

\* the bytes of the debugger's own variables (distinct from every seed byte)
Local(i) == 100 + i
\* the pattern the tracee memory is seeded with
Seed(a) == a + 1

MemoryOp(remote, local, len) ==
    [remote_base |-> remote, local_ptr |-> local, local_len |-> len]

NoOp == MemoryOp(0, 0, 0)

(***************************************************************************)
(* Error values (crate::Error) and the result of apply().                  *)
(***************************************************************************)
NoResult == [tag |-> "None", req |-> 0, read |-> 0]
Ok == [tag |-> "Ok", req |-> 0, read |-> 0]
IncompleteRead(req, read) == [tag |-> "IncompleteRead", req |-> req, read |-> read]
IncompleteWrite(req, wrote) == [tag |-> "IncompleteWrite", req |-> req, read |-> wrote]
\* an errno of a failed kernel call, converted with `?`
SysErr(errno) == [tag |-> errno, req |-> 0, read |-> 0]
\* the thread unwinds, apply() does not return
Panic == [tag |-> "Panic", req |-> 0, read |-> 0]

(***************************************************************************)
(* MemoryOp::split_on_page_boundary: sub-ops that each lie in one remote   *)
(* page; the first split point is remote_base mod PAGE_SIZE.               *)
(***************************************************************************)
RECURSIVE SplitFrom(_, _, _)
SplitFrom(remote, local, left) ==
    IF left = 0 THEN << >>
    ELSE LET n == Min(left, PAGE_SIZE - (remote % PAGE_SIZE))
         IN  << MemoryOp(remote, local, n) >>
                 \o SplitFrom(remote + n, local + n, left - n)

split_on_page_boundary(op) == SplitFrom(op.remote_base, op.local_ptr, op.local_len)

(***************************************************************************)
(* Tracee::memory_maps(): one entry per mapped page, in address order.     *)
(***************************************************************************)
RECURSIVE MapsFrom(_, _)
MapsFrom(perms, p) ==
    IF p >= NumPages THEN << >>
    ELSE (IF perms[p] = "unmapped" THEN << >>
          ELSE << [lo |-> p * PAGE_SIZE, hi |-> (p + 1) * PAGE_SIZE,
                   perms |-> IF perms[p] = "rw" THEN {"READ", "WRITE"} ELSE {"READ"}] >>)
         \o MapsFrom(perms, p + 1)

memory_maps(perms) == MapsFrom(perms, 0)

\* apply(): the maps that do not carry MMPermissions::WRITE
ProtectedMapsAll(maps) == maps
ProtectedMaps(maps) == SelectSeq(maps, LAMBDA map : "WRITE" \notin map.perms)

(***************************************************************************)
(* memory::split_protected: partitions the (page-split) ops into the ones  *)
(* that lie in a protected map and the rest.                               *)
(***************************************************************************)
InMaps(maps, op) ==
    \E i \in 1 .. Len(maps) :
        maps[i].lo <= op.remote_base /\ op.remote_base < maps[i].hi

split_protected(protected_maps, ops) ==
    [protected |-> SelectSeq(ops, LAMBDA op : InMaps(protected_maps, op)),
     writable  |-> SelectSeq(ops, LAMBDA op : ~InMaps(protected_maps, op))]

(***************************************************************************)
(* WordSizedOps::next: yields the next chunk of at most WORD_SIZE bytes    *)
(* and advances the iterator's op.                                         *)
(***************************************************************************)
GroupSizeWhole(len) == len
GroupSize(len) == Min(WORD_SIZE, len)

AdvanceKeepBase(mem_op, group_size) ==
    MemoryOp(mem_op.remote_base, mem_op.local_ptr + group_size,
             mem_op.local_len - group_size)
Advance(mem_op, group_size) ==
    MemoryOp(mem_op.remote_base + group_size, mem_op.local_ptr + group_size,
             mem_op.local_len - group_size)

WordSizedOpsNext(mem_op) ==
    IF mem_op.local_len = 0
    THEN [some |-> FALSE, output |-> NoOp, mem_op |-> mem_op]
    ELSE LET group_size == GroupSize(mem_op.local_len)
         IN  [some   |-> TRUE,
              output |-> MemoryOp(mem_op.remote_base, mem_op.local_ptr, group_size),
              mem_op |-> Advance(mem_op, group_size)]

\* collect(): the iterator run to exhaustion
RECURSIVE into_word_sized_ops(_)
into_word_sized_ops(op) ==
    LET r == WordSizedOpsNext(op)
    IN  IF r.some THEN << r.output >> \o into_word_sized_ops(r.mem_op) ELSE << >>

\* protected.into_iter().flat_map(|op| op.into_word_sized_ops())
RECURSIVE FlatMapWords(_)
FlatMapWords(ops) ==
    IF ops = << >> THEN << >>
    ELSE into_word_sized_ops(Head(ops)) \o FlatMapWords(Tail(ops))

(***************************************************************************)
(* Native-endian conversions of a machine word (little-endian target).     *)
(***************************************************************************)
RECURSIVE from_ne_bytes(_)
from_ne_bytes(bytes) ==
    IF bytes = << >> THEN 0 ELSE Head(bytes) + 256 * from_ne_bytes(Tail(bytes))

RECURSIVE ToBytes(_, _)
ToBytes(word, n) ==
    IF n = 0 THEN << >> ELSE << word % 256 >> \o ToBytes(word \div 256, n - 1)

to_ne_bytes(word) == ToBytes(word, WORD_SIZE)

\* std::slice::from_raw_parts(local_ptr, len) over the debugger's memory
LocalBytes(ptr, len) == [i \in 1 .. len |-> Local(ptr + i - 1)]

(***************************************************************************)
(* Kernel primitives.                                                      *)
(***************************************************************************)
\* the protections a ptrace access and a process_vm_writev store accept
MappedPerms == {"rw", "r"}
WritablePerms == {"rw"}

Mapped(perms, a) == a \in Addr /\ perms[PageOf(a)] \in MappedPerms

\* the number of leading bytes of [a, a+n) whose page protection is in acc
RECURSIVE PrefixLen(_, _, _, _)
PrefixLen(acc, perms, a, n) ==
    IF n = 0 \/ a \notin Addr \/ perms[PageOf(a)] \notin acc
    THEN 0
    ELSE 1 + PrefixLen(acc, perms, a + 1, n - 1)

\* memory after n bytes of the debugger's memory at ptr are stored at a
Store(mem, a, ptr, n) ==
    [x \in Addr |-> IF a <= x /\ x < a + n THEN Local(ptr + (x - a)) ELSE mem[x]]

StoreBytes(mem, a, bytes, n) ==
    [x \in Addr |-> IF a <= x /\ x < a + n THEN bytes[x - a + 1] ELSE mem[x]]

\* process_vm_writev: the iovec pairs are transferred in order up to the
\* first byte that is not writable; the result is the byte count, or EFAULT
\* when nothing was transferred, or ESRCH when the process is gone.
RECURSIVE VmWrite(_, _, _, _)
VmWrite(mem, perms, ops, done) ==
    IF ops = << >> THEN [mem |-> mem, n |-> done, fault |-> FALSE]
    ELSE LET op == Head(ops)
             k  == PrefixLen(WritablePerms, perms, op.remote_base, op.local_len)
             m2 == Store(mem, op.remote_base, op.local_ptr, k)
         IN  IF k < op.local_len
             THEN [mem |-> m2, n |-> done + k, fault |-> TRUE]
             ELSE VmWrite(m2, perms, Tail(ops), done + k)

process_vm_writev(mem, perms, alive, ops) ==
    IF ~alive THEN [mem |-> mem, ok |-> FALSE, n |-> 0, err |-> SysErr("ESRCH")]
    ELSE LET r == VmWrite(mem, perms, ops, 0)
         IN  IF r.fault /\ r.n = 0
             THEN [mem |-> mem, ok |-> FALSE, n |-> 0, err |-> SysErr("EFAULT")]
             ELSE [mem |-> r.mem, ok |-> TRUE, n |-> r.n, err |-> Ok]

\* ptrace(PTRACE_PEEKDATA): the word at a, EIO unless all of it is mapped
ptrace_read(mem, perms, alive, a) ==
    IF ~alive THEN [ok |-> FALSE, word |-> 0, err |-> SysErr("ESRCH")]
    ELSE IF PrefixLen(MappedPerms, perms, a, WORD_SIZE) < WORD_SIZE
    THEN [ok |-> FALSE, word |-> 0, err |-> SysErr("EIO")]
    ELSE [ok |-> TRUE, err |-> Ok,
          word |-> from_ne_bytes([i \in 1 .. WORD_SIZE |-> mem[a + i - 1]])]

\* ptrace(PTRACE_POKEDATA): stores the word at a whatever the page
\* protection; EIO unless all of it is mapped (the mapped prefix is stored)
ptrace_write(mem, perms, alive, a, word) ==
    IF ~alive THEN [ok |-> FALSE, mem |-> mem, err |-> SysErr("ESRCH")]
    ELSE LET k == PrefixLen(MappedPerms, perms, a, WORD_SIZE)
             m2 == StoreBytes(mem, a, to_ne_bytes(word), k)
         IN  IF k < WORD_SIZE
             THEN [ok |-> FALSE, mem |-> m2, err |-> SysErr("EIO")]
             ELSE [ok |-> TRUE, mem |-> m2, err |-> Ok]


\* the `?` applied to the result of a kernel call (nix::Result)
FailedNever(r) == FALSE
Failed(r) == ~r.ok

(***************************************************************************)
(* State.                                                                  *)
(***************************************************************************)
VARIABLES
    mem,        \* tracee memory, Addr -> byte
    perms,      \* protection of every tracee page
    alive,      \* the tracee still exists
    write_ops,  \* WriteMemory.write_ops
    sched,      \* the ops as given to write / write_slice, in call order
    pc,         \* "Building", "Bulk", "Ptrace", "Consumed" or "Dropped"
    writable,   \* apply(): the bulk-eligible ops
    groups,     \* apply(): the word chunks write_ptrace has still to write
    result,     \* what apply() returned
    pre,        \* tracee memory when apply() was entered
    calls,      \* kernel calls issued by apply(), in order
    readback,   \* a read of a scheduled range after apply()
    it,         \* a WordSizedOps iterator driven on its own
    fmt,        \* the last format_bytes_u8 call
    hist,       \* what every apply() so far fetched and how it classified
    iov,        \* the vectors apply() handed to process_vm_writev
    part,       \* the last read of a formatter that keeps a partial read
    rv,         \* a RISC-V InstructionStream and what next() returned last
    cli,        \* the last Cli::parse call
    dec         \* the last decode call

vars == << mem, perms, alive, write_ops, sched, pc, writable, groups, result,
           pre, calls, readback, it, fmt, hist, iov, part,
           rv, cli, dec >>

NoRead == [idx |-> 0, result |-> NoResult, bytes |-> << >>]
NoIter == [op |-> NoOp, mem_op |-> NoOp, out |-> << >>, done |-> FALSE]
NoFmt == [addr |-> 0, len |-> 0, count |-> 0, alive |-> FALSE, result |-> NoResult,
          bytes |-> << >>, text |-> "none"]
\* no instruction stream was opened
NoRet == [kind |-> "none", width |-> 0, mnemomic |-> ""]
NoRv == [bytes |-> << >>, start |-> 0, from |-> 0, arch |-> "none", ret |-> NoRet]
\* Cli::parse was not called
NoCli == [args |-> << >>, out |-> "none", path |-> "", config |-> "",
          disassemble |-> FALSE, libs |-> FALSE, names |-> FALSE, simplify |-> FALSE]
\* no formatter has read yet
NoPart == [fn |-> "none", addr |-> 0, len |-> 0, size |-> 0, count |-> 0,
           result |-> NoResult, kept |-> 0, values |-> << >>]
\* no process_vm_writev call was made
NoIov == [local |-> << >>, remote |-> << >>]
NoDec == [syscall |-> 0, args |-> << >>, alive |-> FALSE, reads |-> << >>, text |-> << >>]

\* what one apply() fetched from Tracee::memory_maps() and the two lists
\* split_protected made of the pending ops with it
Snapshot(ok, maps, split) ==
    [ok |-> ok, maps |-> maps, protected |-> split.protected, writable |-> split.writable]

\* a kernel call made by apply(): its address (for process_vm_writev the
\* byte count it reported) and the Result the caller got from it
Call(op, arg, res) == [op |-> op, arg |-> arg, res |-> res, ok |-> res = Ok]

Init ==
    /\ mem = [a \in Addr |-> Seed(a)]
    /\ perms \in [Page -> Perm]
    /\ alive = TRUE
    /\ write_ops = << >>
    /\ sched = << >>
    /\ pc = "Building"
    /\ writable = << >>
    /\ groups = << >>
    /\ result = NoResult
    /\ pre = [a \in Addr |-> Seed(a)]
    /\ calls = << >>
    /\ readback = NoRead
    /\ it = NoIter
    /\ fmt = NoFmt
    /\ hist = << >>
    /\ dec = NoDec
    /\ iov = NoIov
    /\ part = NoPart
    /\ rv = NoRv
    /\ cli = NoCli

RECURSIVE SumLen(_)
SumLen(ops) == IF ops = << >> THEN 0 ELSE Head(ops).local_len + SumLen(Tail(ops))

(***************************************************************************)
(* WriteMemory::write and WriteMemory::write_slice: split the op on page   *)
(* boundaries and append the sub-ops to write_ops.  The values live one    *)
(* after the other in the debugger's memory.                               *)
(***************************************************************************)
\* `self` is taken by value: a call is possible only on a builder the
\* caller still owns, which write / write_slice hand back and apply() keeps
OwnedAlways(state) == TRUE
Owned(state) == state = "Building"

\* WriteOp::split_on_page_boundary(&WriteOp { .. }, &mut self.write_ops)
ScheduledOpsWhole(op) == << op >>
ScheduledOps(op) == split_on_page_boundary(op)

ScheduleEager(op) ==
    /\ Owned(pc)
    /\ Len(sched) < MaxWrites
    /\ op.local_ptr + op.local_len <= LocalSize
    /\ op.remote_base + op.local_len <= MemSize
    /\ write_ops' = write_ops \o ScheduledOps(op)
    /\ sched' = Append(sched, op)
    /\ mem' = Store(mem, op.remote_base, op.local_ptr, op.local_len)
    /\ UNCHANGED << rv, cli, part, iov, hist, dec, perms, alive, pc, writable, groups, result, pre, calls,
                    readback, it, fmt >>
Schedule(op) ==
    /\ Owned(pc)
    /\ Len(sched) < MaxWrites
    /\ op.local_ptr + op.local_len <= LocalSize
    /\ op.remote_base + op.local_len <= MemSize
    /\ write_ops' = write_ops \o ScheduledOps(op)
    /\ sched' = Append(sched, op)
    /\ UNCHANGED << rv, cli, part, iov, hist, dec, mem, perms, alive, pc, writable, groups, result, pre, calls,
                    readback, it, fmt >>

Write ==
    \E len \in 0 .. LocalSize, remote_base \in Addr :
        Schedule(MemoryOp(remote_base, SumLen(sched), len))

WriteSlice ==
    \E n \in 0 .. LocalSize, size \in 1 .. MaxElem, remote_base \in Addr :
        Schedule(MemoryOp(remote_base, SumLen(sched), n * size))

(***************************************************************************)
(* WriteMemory::apply, first part: fetch the memory maps, keep the ones    *)
(* without write permission, classify the ops and break the protected      *)
(* ones into word groups.  Before any kernel call of apply() the tracee    *)
(* may have gone away (gone); the call then fails.                         *)
(***************************************************************************)
\* the order of the statements of apply(): classify, then
\* write_process_vm, then write_ptrace, then Ok(())
StageAfterFallbackFirst(stage) ==
    CASE stage = "Classify" -> "Ptrace"
      [] stage = "Ptrace" -> "Bulk"
      [] stage = "Bulk" -> "Consumed"
StageAfter(stage) ==
    CASE stage = "Classify" -> "Bulk"
      [] stage = "Bulk" -> "Ptrace"
      [] stage = "Ptrace" -> "Consumed"

\* what apply() has to return when it moves on to the given stage
ResultAt(stage, res) == IF stage = "Consumed" THEN Ok ELSE res

\* self.tracee.memory_maps()?: asked of the OS by this call, whatever the
\* earlier calls (snaps) were given
FetchMapsCached(snaps, current) ==
    IF snaps # << >> /\ snaps[1].ok THEN snaps[1].maps ELSE memory_maps(current)
FetchMaps(snaps, current) == memory_maps(current)

\* the `?` applied to self.tracee.memory_maps(): the fetch fails when the
\* tracee is gone
FetchFailedNever(exists) == FALSE
FetchFailed(exists) == ~exists

ApplyClassify ==
    /\ Owned(pc)
    /\ pre' = mem
    /\ \E gone \in BOOLEAN :
         /\ alive' = (alive /\ ~gone)
         /\ IF FetchFailed(alive')
            THEN /\ result' = SysErr("ProcError")
                 /\ pc' = "Consumed"
                 /\ calls' = << Call("memory_maps", 0, SysErr("ProcError")) >>
                 /\ hist' = Append(hist, Snapshot(FALSE, << >>,
                                                   [protected |-> << >>, writable |-> << >>]))
                 /\ UNCHANGED << writable, groups >>
            ELSE LET maps == FetchMaps(hist, perms)
                     protected_maps == ProtectedMaps(maps)
                     split == split_protected(protected_maps, write_ops)
                 IN  /\ writable' = split.writable
                     /\ groups' = FlatMapWords(split.protected)
                     /\ calls' = << Call("memory_maps", 0, Ok) >>
                     /\ hist' = Append(hist, Snapshot(TRUE, maps, split))
                     /\ pc' = StageAfter("Classify")
                     /\ UNCHANGED result
    /\ iov' = NoIov
    /\ UNCHANGED << rv, cli, part, dec, mem, perms, write_ops, sched, readback, it, fmt >>

(***************************************************************************)
(* WriteMemory::write_process_vm: one process_vm_writev call for all the   *)
(* ops; a short count is an error.                                         *)
(***************************************************************************)
\* if bytes_read != bytes_expected
IsShortNever(bytes_read, bytes_expected) == FALSE
IsShort(bytes_read, bytes_expected) == bytes_read # bytes_expected

\* Err(Error::IncompleteRead { req: bytes_expected, read: bytes_read })
ShortWrite(bytes_expected, bytes_read) == IncompleteRead(bytes_expected, bytes_read)

\* usize::MAX and isize::MAX of a target whose usize has WORD_SIZE bytes
USIZE_MAX == 256 ^ WORD_SIZE - 1
ISIZE_MAX == USIZE_MAX \div 2

\* write_ops.iter().fold(0, |sum, read_op| sum + read_op.local_len) in usize:
\* the value the fold arrives at when the additions wrap, and whether one
\* of them overflowed
RECURSIVE FoldLen(_, _)
FoldLen(ops, sum) ==
    IF ops = << >> THEN [val |-> sum, overflow |-> FALSE]
    ELSE LET next == sum + Head(ops).local_len
             rest == FoldLen(Tail(ops), next % (USIZE_MAX + 1))
         IN  [val |-> rest.val, overflow |-> rest.overflow \/ next > USIZE_MAX]

bytes_expected(ops) == FoldLen(ops, 0)

\* if bytes_expected > isize::MAX as usize { panic!("Write size too big") }
TooBig(expected) == expected > ISIZE_MAX

\* read_op.as_remote_iovec() and read_op.as_local(): base and length
as_remote_iovec(op) == [base |-> op.remote_base, len |-> op.local_len]
as_local(op) == [base |-> op.local_ptr, len |-> op.local_len]

\* write_ops.iter().map(..).collect(): one vector per op, in the ops' order
RemoteIoVecsReversed(ops) ==
    [i \in 1 .. Len(ops) |-> as_remote_iovec(ops[Len(ops) + 1 - i])]
RemoteIoVecs(ops) == [i \in 1 .. Len(ops) |-> as_remote_iovec(ops[i])]
LocalIoVecs(ops) == [i \in 1 .. Len(ops) |-> as_local(ops[i])]

\* process_vm_writev(pid, &local, &remote): the kernel moves local[i] to
\* remote[i]
IoPairsLastFirst(local, remote) ==
    [i \in 1 .. Min(Len(local), Len(remote)) |->
        LET k == Min(Len(local), Len(remote)) + 1 - i
        IN  MemoryOp(remote[k].base, local[k].base, Min(local[k].len, remote[k].len))]
IoPairs(local, remote) ==
    [i \in 1 .. Min(Len(local), Len(remote)) |->
        MemoryOp(remote[i].base, local[i].base, Min(local[i].len, remote[i].len))]

\* the element of a one-element set: { F(x) : x \in {e} } binds the value
\* of e once
Only(S) == CHOOSE x \in S : TRUE

\* overflow_checks: the build panics on an overflowing `+` (debug profile)
\* instead of wrapping (release profile)
write_process_vm(m, exists, ops, overflow_checks) ==
    LET expected == bytes_expected(ops)
        remote == RemoteIoVecs(ops)
        local == LocalIoVecs(ops)
        r == Only({ process_vm_writev(m, perms, exists, pairs) :
                      pairs \in {IoPairs(local, remote)} })
        none == [mem |-> m, result |-> Panic, n |-> 0, called |-> FALSE, iov |-> NoIov]
        made == [mem |-> r.mem, result |-> r.err, n |-> r.n, called |-> TRUE,
                 iov |-> [local |-> local, remote |-> remote]]
    IN  IF expected.overflow /\ overflow_checks THEN none
        ELSE IF TooBig(expected.val) THEN none
        ELSE IF Failed(r) THEN [made EXCEPT !.n = 0]
        ELSE IF IsShort(r.n, expected.val)
        THEN [made EXCEPT !.result = ShortWrite(expected.val, r.n)]
        ELSE made

\* the `?` applied to the result of write_process_vm
BulkErrNever(res) == FALSE
BulkErr(res) == res # Ok

\* apply(): if !writable.is_empty() { self.write_process_vm(&writable)?; }
ApplyBulk ==
    /\ pc = "Bulk"
    /\ IF writable = << >>
       THEN /\ pc' = StageAfter("Bulk")
            /\ result' = ResultAt(pc', result)
            /\ UNCHANGED << mem, alive, calls, iov >>
       ELSE \E gone \in BOOLEAN, overflow_checks \in BOOLEAN :
              \E r \in {write_process_vm(mem, alive /\ ~gone, writable, overflow_checks)} :
                  /\ alive' = (alive /\ ~gone)
                  /\ mem' = r.mem
                  /\ iov' = r.iov
                  /\ calls' = IF r.called
                              THEN Append(calls, Call("process_vm_writev", r.n, r.result))
                              ELSE calls
                  /\ IF BulkErr(r.result)
                     THEN pc' = "Consumed" /\ result' = r.result
                     ELSE /\ pc' = StageAfter("Bulk")
                          /\ result' = ResultAt(pc', result)
    /\ UNCHANGED << rv, cli, part, hist, dec, perms, write_ops, sched, writable, groups, pre, readback, it, fmt >>

(***************************************************************************)
(* WriteMemory::write_ptrace, one iteration of the loop over the word      *)
(* groups.                                                                 *)
(***************************************************************************)
\* word[..op.local_len].clone_from_slice(&src_bytes[..op.local_len])
SpliceNoRead(word, src_bytes, len) ==
    [i \in 1 .. WORD_SIZE |-> IF i <= len THEN src_bytes[i] ELSE 0]
Splice(word, src_bytes, len) ==
    [i \in 1 .. WORD_SIZE |-> IF i <= len THEN src_bytes[i] ELSE word[i]]

\* if op.local_len < WORD_SIZE: the group is read before it is rewritten
NeedsReadAlways(op) == op.local_len <= WORD_SIZE
NeedsRead(op) == op.local_len < WORD_SIZE

\* op.remote_base as *mut c_void: the address given to ptrace::read and
\* ptrace::write is the group's own address, not rounded to a word
WordAddrAligned(op) == op.remote_base - (op.remote_base % WORD_SIZE)
WordAddr(op) == op.remote_base

\* the head group is shorter than a word and its ptrace::read fails
PtraceReadFails ==
    /\ pc = "Ptrace" /\ groups # << >>
    /\ \E gone \in BOOLEAN :
         LET op == Head(groups)
             rd == ptrace_read(mem, perms, alive /\ ~gone, WordAddr(op))
         IN  /\ NeedsRead(op)
             /\ Failed(rd)
             /\ alive' = (alive /\ ~gone)
             /\ result' = rd.err
             /\ calls' = Append(calls, Call("ptrace_read", WordAddr(op), rd.err))
    /\ pc' = "Consumed"
    /\ UNCHANGED << rv, cli, part, iov, hist, dec, mem, perms, write_ops, sched, writable, groups, pre,
                    readback, it, fmt >>

\* the head group is shorter than a word: read, splice, write (the tracee
\* may go away between the two calls)
PtraceSubWord ==
    /\ pc = "Ptrace" /\ groups # << >>
    /\ \E gone \in BOOLEAN :
         LET op == Head(groups)
             rd == ptrace_read(mem, perms, alive, WordAddr(op))
             word == Splice(to_ne_bytes(rd.word),
                            LocalBytes(op.local_ptr, op.local_len), op.local_len)
             wr == ptrace_write(mem, perms, alive /\ ~gone, WordAddr(op),
                                from_ne_bytes(word))
         IN  /\ NeedsRead(op)
             /\ ~Failed(rd)
             /\ alive' = (alive /\ ~gone)
             /\ mem' = wr.mem
             /\ calls' = calls \o << Call("ptrace_read", WordAddr(op), rd.err),
                                     Call("ptrace_write", WordAddr(op), wr.err) >>
             /\ IF Failed(wr)
                THEN pc' = "Consumed" /\ result' = wr.err /\ UNCHANGED groups
                ELSE groups' = Tail(groups) /\ UNCHANGED << pc, result >>
    /\ UNCHANGED << rv, cli, part, iov, hist, dec, perms, write_ops, sched, writable, pre, readback, it, fmt >>

\* the head group is a whole word: std::ptr::read of the local word, write
PtraceWord ==
    /\ pc = "Ptrace" /\ groups # << >>
    /\ \E gone \in BOOLEAN :
         LET op == Head(groups)
             word == from_ne_bytes(LocalBytes(op.local_ptr, WORD_SIZE))
             wr == ptrace_write(mem, perms, alive /\ ~gone, WordAddr(op), word)
         IN  /\ op.local_len <= WORD_SIZE /\ ~NeedsRead(op)
             /\ alive' = (alive /\ ~gone)
             /\ mem' = wr.mem
             /\ calls' = Append(calls, Call("ptrace_write", WordAddr(op), wr.err))
             /\ IF Failed(wr)
                THEN pc' = "Consumed" /\ result' = wr.err /\ UNCHANGED groups
                ELSE groups' = Tail(groups) /\ UNCHANGED << pc, result >>
    /\ UNCHANGED << rv, cli, part, iov, hist, dec, perms, write_ops, sched, writable, pre, readback, it, fmt >>

\* assert!(op.local_len <= WORD_SIZE) fails, or std::ptr::read::<usize> is
\* given a local pointer that is not word aligned: that read is undefined,
\* and a build with the pointer checks enabled aborts there
PtracePanic ==
    /\ pc = "Ptrace" /\ groups # << >>
    /\ \/ Head(groups).local_len > WORD_SIZE
       \/ /\ Head(groups).local_len = WORD_SIZE
          /\ Head(groups).local_ptr % WORD_SIZE # 0
    /\ pc' = "Consumed"
    /\ result' = Panic
    /\ UNCHANGED << rv, cli, part, iov, hist, dec, mem, perms, alive, write_ops, sched, writable, groups, pre, calls,
                    readback, it, fmt >>

\* the loop is over: Ok(())
PtraceDone ==
    /\ pc = "Ptrace" /\ groups = << >>
    /\ pc' = StageAfter("Ptrace")
    /\ result' = ResultAt(pc', result)
    /\ UNCHANGED << rv, cli, part, iov, hist, dec, mem, perms, alive, write_ops, sched, writable, groups, pre, calls,
                    readback, it, fmt >>

(***************************************************************************)
(* ReadMemory: read_slice(buf, addr).apply().  The op is split on page     *)
(* boundaries; every mapped page is bulk-eligible for a read, so all the   *)
(* sub-ops go to one process_vm_readv call; a short count is               *)
(* IncompleteRead { req, read }.                                           *)
(***************************************************************************)
\* process_vm_readv: the bytes up to the first one that is not mapped
process_vm_readv(m, exists, ops) ==
    LET total == SumLen(ops)
        base == IF ops = << >> THEN 0 ELSE Head(ops).remote_base
        k == PrefixLen(MappedPerms, perms, base, total)
    IN  IF ~exists THEN [ok |-> FALSE, n |-> 0, err |-> SysErr("ESRCH"), bytes |-> << >>]
        ELSE IF k = 0 /\ total > 0
        THEN [ok |-> FALSE, n |-> 0, err |-> SysErr("EFAULT"), bytes |-> << >>]
        ELSE [ok |-> TRUE, n |-> k, err |-> Ok, bytes |-> [i \in 1 .. k |-> m[base + i - 1]]]

read_apply(m, exists, addr, len) ==
    LET ops == split_on_page_boundary(MemoryOp(addr, 0, len))
        r == process_vm_readv(m, exists, ops)
    IN  IF ops = << >> THEN [result |-> Ok, bytes |-> << >>]
        ELSE IF ~r.ok THEN [result |-> r.err, bytes |-> << >>]
        ELSE IF r.n # SumLen(ops)
        THEN [result |-> IncompleteRead(SumLen(ops), r.n), bytes |-> r.bytes]
        ELSE [result |-> Ok, bytes |-> r.bytes]

\* after apply(), the range of the last scheduled write is read back
ReadBack ==
    /\ pc = "Consumed"
    /\ readback = NoRead
    /\ sched # << >>
    /\ LET i == Len(sched)
           r == read_apply(mem, alive, sched[i].remote_base, sched[i].local_len)
       IN  readback' = [idx |-> i, result |-> r.result, bytes |-> r.bytes]
    /\ UNCHANGED << rv, cli, part, iov, hist, dec, mem, perms, alive, write_ops, sched, pc, writable, groups, result,
                    pre, calls, it, fmt >>

(***************************************************************************)
(* WriteMemory::new for the next request, once the previous apply() has    *)
(* returned, and a change of a page's write permission made by the tracee  *)
(* or its environment while no apply() is executing.                       *)
(***************************************************************************)
New ==
    /\ pc = "Consumed"
    /\ Len(hist) < MaxApplies
    /\ write_ops' = << >>
    /\ pc' = "Building"
    /\ writable' = << >>
    /\ groups' = << >>
    /\ result' = NoResult
    /\ calls' = << >>
    /\ readback' = NoRead
    /\ iov' = NoIov
    /\ UNCHANGED << rv, cli, part, hist, dec, mem, perms, alive, sched, pre, it, fmt >>

\* the builder goes out of scope without apply(): its ops are discarded
Drop ==
    /\ pc = "Building"
    /\ pc' = "Dropped"
    /\ UNCHANGED << rv, cli, part, iov, hist, dec, mem, perms, alive, write_ops, sched, writable, groups,
                    result, pre, calls, readback, it, fmt >>

Mprotect ==
    /\ pc \in {"Building", "Consumed"}
    /\ alive
    /\ \E p \in Page :
         /\ perms[p] \in MappedPerms
         /\ perms' = [perms EXCEPT ![p] = IF perms[p] = "rw" THEN "r" ELSE "rw"]
    /\ UNCHANGED << rv, cli, part, iov, hist, dec, mem, alive, write_ops, sched, pc, writable, groups, result,
                    pre, calls, readback, it, fmt >>

Next ==
    \/ Write
    \/ WriteSlice
    \/ ApplyClassify
    \/ ApplyBulk
    \/ PtraceReadFails
    \/ PtraceSubWord
    \/ PtraceWord
    \/ PtracePanic
    \/ ReadBack
    \/ PtraceDone
    \/ Drop

Spec == Init /\ [][Next]_vars

\* apply() is one synchronous call: once entered it runs on to its return
ApplyStep ==
    \/ ApplyBulk
    \/ PtraceReadFails
    \/ PtraceSubWord
    \/ PtraceWord
    \/ PtracePanic
    \/ PtraceDone

SpecLive == Spec /\ WF_vars(ApplyStep)

(***************************************************************************)
(* Properties of apply().                                                  *)
(***************************************************************************)
RangeOf(op) == { a \in Addr : op.remote_base <= a /\ a < op.remote_base + op.local_len }

Disjoint(ops) ==
    \A i, j \in 1 .. Len(ops) : i # j => RangeOf(ops[i]) \cap RangeOf(ops[j]) = {}

Scheduled == UNION { RangeOf(sched[i]) : i \in 1 .. Len(sched) }

\* the tracee bytes of the op's remote range are the op's source bytes
Holds(m, op) ==
    \A a \in RangeOf(op) : m[a] = Local(op.local_ptr + (a - op.remote_base))

\* C1: when apply() returns Ok for scheduled writes with pairwise disjoint
\* remote ranges, every scheduled range holds its source bytes and every
\* tracee byte outside the scheduled ranges has the value it had before
\* apply().
C1_ApplyOkWritesExactly ==
    (pc = "Consumed" /\ result = Ok /\ Disjoint(sched)) =>
        /\ \A i \in 1 .. Len(sched) : Holds(mem, sched[i])
        /\ \A a \in Addr \ Scheduled : mem[a] = pre[a]

\* two disjoint non-empty writes, one executed in bulk and one by ptrace,
\* have been applied with Ok and some tracee byte is outside both
C1_Witness ==
    /\ pc = "Consumed" /\ result = Ok /\ Disjoint(sched)
    /\ Len(sched) = 2 /\ sched[1].local_len > 0 /\ sched[2].local_len > 0
    /\ writable # << >>
    /\ \E i \in 1 .. Len(calls) : calls[i].op = "ptrace_write"
    /\ Addr \ Scheduled # {}

\* the pages of the op's remote range
PagesOf(op) == { PageOf(a) : a \in RangeOf(op) }

\* every word that starts inside the op's remote range lies in the modelled
\* address space
InModel(op) == op.remote_base + op.local_len + WORD_SIZE - 1 <= MemSize

\* C2: a page-sized slice goes to write_ptrace iff its page is mapped without
\* write permission, every other slice goes to write_process_vm; and a
\* write of a full word or of a single byte to a read-only mapped page
\* succeeds and is observed by the tracee.
C2_ProtectedGoToPtraceAndSucceed ==
    /\ (pc \in {"Bulk", "Ptrace"} /\ alive) =>
          /\ \A i \in 1 .. Len(writable) :
                 perms[PageOf(writable[i].remote_base)] # "r"
          /\ \A i \in 1 .. Len(groups) :
                 perms[PageOf(groups[i].remote_base)] = "r"
    /\ (/\ pc = "Consumed" /\ alive
        /\ Len(sched) = 1
        /\ sched[1].local_len \in {1, WORD_SIZE}
        /\ InModel(sched[1])
        /\ Cardinality(PagesOf(sched[1])) = 1
        /\ \A p \in PagesOf(sched[1]) : perms[p] = "r")
       => (result = Ok /\ Holds(mem, sched[1]))

\* C3: a successful write_ptrace step for a chunk of n < WORD_SIZE bytes
\* leaves the n remote bytes equal to the source bytes and changes no other
\* tracee byte.
C3_SubWordWriteFrame ==
    [][ (/\ pc = "Ptrace" /\ groups # << >>
         /\ Head(groups).local_len < WORD_SIZE
         /\ groups' = Tail(groups))
        => \A a \in Addr :
              mem'[a] = IF a \in RangeOf(Head(groups))
                        THEN Local(Head(groups).local_ptr
                                   + (a - Head(groups).remote_base))
                        ELSE mem[a] ]_vars

\* a single byte was written by read-modify-write in the middle of a remote
\* word: the byte holds the source byte, its neighbour in the word read by
\* ptrace keeps the seed
C3_Witness ==
    \E i \in 2 .. Len(calls) :
        /\ calls[i].op = "ptrace_write" /\ calls[i].ok
        /\ calls[i - 1].op = "ptrace_read"
        /\ calls[i].arg % WORD_SIZE = 1
        /\ mem[calls[i].arg] >= 100
        /\ mem[calls[i].arg + 1] = Seed(calls[i].arg + 1)

\* C4: a value written to a mapped remote range (one write call, on writable
\* or on write-protected pages) and read back from the same address is the
\* value.
C4_RoundTrip ==
    (/\ readback.idx # 0 /\ alive
     /\ Len(sched) = 1
     /\ result # Panic
     /\ InModel(sched[1])
     /\ \A a \in RangeOf(sched[1]) : Mapped(perms, a))
    => (/\ result = Ok
        /\ readback.result = Ok
        /\ readback.bytes = LocalBytes(sched[1].local_ptr, sched[1].local_len))

\* C7: a bulk transfer that moves fewer bytes than the bulk-eligible ops
\* ask for makes apply() return IncompleteWrite { requested: the sum of the
\* bulk-eligible lengths, transferred: the count the kernel reported },
\* never Ok.
C7_ShortWriteIsIncompleteWrite ==
    (/\ pc = "Consumed"
     /\ Len(calls) >= 2
     /\ calls[2].op = "process_vm_writev"
     /\ calls[2].arg > 0
     /\ calls[2].arg < SumLen(writable))
    => result = IncompleteWrite(SumLen(writable), calls[2].arg)

(***************************************************************************)
(* WordSizedOps driven on its own: an op of up to MaxOpLen bytes is turned *)
(* into an iterator and next() is called until it returns None.            *)
(***************************************************************************)
InitWords ==
    /\ mem = [a \in Addr |-> Seed(a)]
    /\ perms = [p \in Page |-> "rw"]
    /\ alive = TRUE
    /\ write_ops = << >>
    /\ sched = << >>
    /\ pc = "Building"
    /\ writable = << >>
    /\ groups = << >>
    /\ result = NoResult
    /\ pre = [a \in Addr |-> Seed(a)]
    /\ calls = << >>
    /\ readback = NoRead
    /\ fmt = NoFmt
    /\ hist = << >>
    /\ dec = NoDec
    /\ iov = NoIov
    /\ part = NoPart
    /\ rv = NoRv
    /\ cli = NoCli
    /\ \E remote_base \in Addr, local_ptr \in 0 .. (WORD_SIZE - 1), len \in 0 .. MaxOpLen :
         it = [op     |-> MemoryOp(remote_base, local_ptr, len),
               mem_op |-> MemoryOp(remote_base, local_ptr, len),
               out    |-> << >>,
               done   |-> FALSE]

\* next() returns Some(output)
IterSome ==
    /\ ~it.done
    /\ WordSizedOpsNext(it.mem_op).some
    /\ it' = [it EXCEPT !.mem_op = WordSizedOpsNext(it.mem_op).mem_op,
                        !.out = Append(it.out, WordSizedOpsNext(it.mem_op).output)]
    /\ UNCHANGED << rv, cli, part, iov, hist, dec, mem, perms, alive, write_ops, sched, pc, writable, groups, result,
                    pre, calls, readback, fmt >>

\* next() returns None
IterNone ==
    /\ ~it.done
    /\ ~WordSizedOpsNext(it.mem_op).some
    /\ it' = [it EXCEPT !.done = TRUE]
    /\ UNCHANGED << rv, cli, part, iov, hist, dec, mem, perms, alive, write_ops, sched, pc, writable, groups, result,
                    pre, calls, readback, fmt >>

NextWords == IterSome \/ IterNone

SpecWords == InitWords /\ [][NextWords]_vars

CeilDiv(a, b) == (a + b - 1) \div b

\* C5: for an op of length L the iterator yields exactly ceil(L / WORD_SIZE)
\* chunks, each of 1 .. WORD_SIZE bytes, all but the last of exactly
\* WORD_SIZE bytes, and the lengths sum to L.
C5_WordChunkCount ==
    /\ \A i \in 1 .. Len(it.out) :
          /\ it.out[i].local_len >= 1
          /\ it.out[i].local_len <= WORD_SIZE
          /\ (i < CeilDiv(it.op.local_len, WORD_SIZE) => it.out[i].local_len = WORD_SIZE)
    /\ Len(it.out) <= CeilDiv(it.op.local_len, WORD_SIZE)
    /\ it.done =>
          /\ Len(it.out) = CeilDiv(it.op.local_len, WORD_SIZE)
          /\ SumLen(it.out) = it.op.local_len

\* an op whose length is not a multiple of the word size has been consumed:
\* several chunks, the last one shorter than a word
C5_Witness ==
    /\ it.done
    /\ it.op.local_len % WORD_SIZE # 0
    /\ Len(it.out) >= 3
    /\ it.out[Len(it.out)].local_len < WORD_SIZE

\* C6: the i-th chunk (0-based) starts at remote_base + i * WORD_SIZE and at
\* local_ptr + i * WORD_SIZE, so the chunks tile the op's remote and local
\* ranges without gap or overlap, in increasing address order.
C6_WordChunksTile ==
    /\ \A i \in 1 .. Len(it.out) :
          /\ it.out[i].remote_base = it.op.remote_base + (i - 1) * WORD_SIZE
          /\ it.out[i].local_ptr = it.op.local_ptr + (i - 1) * WORD_SIZE
    /\ \A i \in 1 .. Len(it.out) - 1 :
          /\ it.out[i + 1].remote_base = it.out[i].remote_base + it.out[i].local_len
          /\ it.out[i + 1].local_ptr = it.out[i].local_ptr + it.out[i].local_len
    /\ it.done =>
          /\ UNION { it.out[i].remote_base
                        .. (it.out[i].remote_base + it.out[i].local_len - 1) :
                      i \in 1 .. Len(it.out) }
                = it.op.remote_base .. (it.op.remote_base + it.op.local_len - 1)
          /\ UNION { it.out[i].local_ptr
                        .. (it.out[i].local_ptr + it.out[i].local_len - 1) :
                      i \in 1 .. Len(it.out) }
                = it.op.local_ptr .. (it.op.local_ptr + it.op.local_len - 1)

\* three chunks have been yielded for an op that starts at an unaligned
\* remote address and an unaligned local pointer
C6_Witness ==
    /\ it.done
    /\ Len(it.out) >= 3
    /\ it.op.remote_base % WORD_SIZE # 0
    /\ it.op.local_ptr % WORD_SIZE # 0

(***************************************************************************)
(* systrace: format_bytes_u8(proc, addr, len) reads up to 20 bytes of the  *)
(* tracee into a Vec and keeps what was read.                              *)
(***************************************************************************)
\* std::cmp::min(len as usize, 20)
BYTES_LIMIT == 20

\* the length given to bytes.set_len after the read
SetLenCount(read_op, count) == count
SetLen(read_op, count) ==
    IF read_op = Ok THEN count
    ELSE IF read_op.tag = "IncompleteRead" THEN read_op.read
    ELSE 0

\* the Vec's buffer after the read: what was not written is uninitialised
Uninit == -1
Buffer(read_bytes, count) ==
    [i \in 1 .. count |-> IF i <= Len(read_bytes) THEN read_bytes[i] ELSE Uninit]

format_bytes_u8(exists, addr, len) ==
    IF addr = 0
    THEN [addr |-> addr, len |-> len, count |-> 0, alive |-> exists, result |-> NoResult,
          bytes |-> << >>, text |-> "NULL"]
    ELSE LET count == Min(len, BYTES_LIMIT)
             r == read_apply(mem, exists, addr, count)
         IN  IF r.result # Ok /\ r.result.tag # "IncompleteRead"
             THEN [addr |-> addr, len |-> len, count |-> count, alive |-> exists,
                   result |-> r.result, bytes |-> << >>, text |-> "???"]
             ELSE [addr |-> addr, len |-> len, count |-> count, alive |-> exists,
                   result |-> r.result,
                   bytes |-> SubSeq(Buffer(r.bytes, count), 1, SetLen(r.result, count)),
                   text |-> "bytes"]

FormatBytesU8 ==
    /\ \E addr \in Addr, len \in 0 .. MaxFmtLen, gone \in BOOLEAN :
         /\ alive' = (alive /\ ~gone)
         /\ fmt' = format_bytes_u8(alive /\ ~gone, addr, len)
    /\ UNCHANGED << rv, cli, part, iov, hist, dec, mem, perms, write_ops, sched, pc, writable, groups, result,
                    pre, calls, readback, it >>

NextFmt == FormatBytesU8

SpecFmt == Init /\ [][NextFmt]_vars

\* the number of leading bytes of [a, a+n) that are backed by a mapped page
BackedPrefix(a, n) ==
    Cardinality({ k \in 1 .. n : \A j \in 0 .. (k - 1) : Mapped(perms, a + j) })

C9_FirstErrorReturned ==
    (pc = "Consumed" /\ result # Panic) =>
        /\ calls # << >> /\ calls[1].op = "memory_maps"
        /\ \A i \in 2 .. Len(calls) : calls[i].op # "memory_maps"
        /\ \A i \in 3 .. Len(calls) : calls[i].op # "process_vm_writev"
        /\ \A i \in 1 .. Len(calls) - 1 : calls[i].ok
        /\ result = calls[Len(calls)].res
        /\ result = Ok =>
              /\ groups = << >>
              /\ writable # << >> =>
                    (Len(calls) >= 2 /\ calls[2].op = "process_vm_writev")

\* the bulk transfer failed after the map fetch succeeded, protected word
\* groups were pending, and apply() returned that error
C9_Witness ==
    /\ pc = "Consumed"
    /\ Len(calls) = 2
    /\ calls[2].op = "process_vm_writev" /\ ~calls[2].ok
    /\ groups # << >>
    /\ result = calls[2].res

\* the word groups of the protected ops, as apply() computed them
AllGroups ==
    FlatMapWords(split_protected(ProtectedMaps(memory_maps(perms)), write_ops).protected)

PtraceFailed ==
    /\ pc = "Consumed"
    /\ calls[Len(calls)].op \in {"ptrace_read", "ptrace_write"}
    /\ ~calls[Len(calls)].ok

\* C10: when the ptrace read or write of a word group fails, the step
\* leaves the tracee memory as it was, apply() returns that error and
\* issues no further call; the groups before it stay written.
C10_NoRollbackOnFallback ==
    /\ [][ (/\ Len(calls') > Len(calls)
            /\ calls'[Len(calls')].op \in {"ptrace_read", "ptrace_write"}
            /\ ~calls'[Len(calls')].ok)
           => /\ mem' = mem
              /\ groups' = groups
              /\ pc' = "Consumed"
              /\ result' = calls'[Len(calls')].res ]_vars
    /\ [][ pc = "Consumed" => (mem' = mem /\ calls' = calls) ]_vars
    /\ [] ( (PtraceFailed /\ Disjoint(sched)) =>
               /\ calls[Len(calls)].arg = Head(groups).remote_base
               /\ \A i \in 1 .. (Len(AllGroups) - Len(groups)) :
                      Holds(mem, AllGroups[i])
               /\ Cardinality({ i \in 1 .. Len(calls) :
                                  calls[i].op = "ptrace_write" /\ calls[i].ok })
                     = Len(AllGroups) - Len(groups) )

\* the second of three word groups failed: the first is written, the third
\* was never attempted
C10_Witness ==
    /\ PtraceFailed /\ Disjoint(sched)
    /\ Len(AllGroups) = 3
    /\ Len(groups) = 2
    /\ Holds(mem, AllGroups[1])
    /\ ~Holds(mem, AllGroups[3])

(***************************************************************************)
(* Several requests one after the other, with the tracee's page            *)
(* protections changing in between: every page is mapped, what changes is  *)
(* its write permission.                                                   *)
(***************************************************************************)
InitMaps ==
    /\ Init
    /\ \A p \in Page : perms[p] \in MappedPerms

NextMaps ==
    \/ Write
    \/ WriteSlice
    \/ ApplyClassify
    \/ ApplyBulk
    \/ PtraceReadFails
    \/ PtraceSubWord
    \/ PtraceWord
    \/ PtracePanic
    \/ PtraceDone
    \/ New
    \/ Mprotect

SpecMaps == InitMaps /\ [][NextMaps]_vars

\* the pages the ops of a list start in
PagesIn(ops) == { PageOf(ops[i].remote_base) : i \in 1 .. Len(ops) }

\* the pages a snapshot lists without write permission
ProtectedPages(maps) ==
    { PageOf(maps[i].lo) : i \in { j \in 1 .. Len(maps) : "WRITE" \notin maps[j].perms } }

\* C11: every apply() fetches the memory map itself, once and before any
\* transfer, and classifies with that snapshot only: an op is protected iff
\* its page has no write permission when this apply() runs, whatever an
\* earlier apply() saw.
C11_FreshSnapshotPerApply ==
    /\ [][ hist' # hist =>
             /\ pc = "Building"
             /\ Len(hist') = Len(hist) + 1
             /\ calls' = << Call("memory_maps", 0,
                                 IF alive' THEN Ok ELSE SysErr("ProcError")) >>
             /\ mem' = mem
             /\ alive' =>
                   /\ hist'[Len(hist')].maps = memory_maps(perms)
                   /\ writable' = hist'[Len(hist')].writable
                   /\ groups' = FlatMapWords(hist'[Len(hist')].protected)
                   /\ \A i \in 1 .. Len(write_ops) :
                         /\ perms[PageOf(write_ops[i].remote_base)] = "r"
                               => PageOf(write_ops[i].remote_base) \in PagesIn(groups')
                         /\ perms[PageOf(write_ops[i].remote_base)] = "rw"
                               => PageOf(write_ops[i].remote_base) \in PagesIn(writable')
                   /\ \A p \in PagesIn(groups') : perms[p] = "r"
                   /\ \A p \in PagesIn(writable') : perms[p] = "rw" ]_vars
    /\ [][ (pc \in {"Bulk", "Ptrace"}) => (hist' = hist /\ perms' = perms) ]_vars
    /\ [] ( pc \in {"Bulk", "Ptrace", "Consumed"} =>
               /\ calls # << >> /\ calls[1].op = "memory_maps"
               /\ \A i \in 2 .. Len(calls) : calls[i].op # "memory_maps" )

\* a page was protected for the first apply(), which wrote to it by ptrace;
\* its protection changed, and the second apply() sent a write to the same
\* page through the bulk transfer
C11_Witness ==
    /\ Len(hist) = 2 /\ hist[1].ok /\ hist[2].ok
    /\ pc = "Consumed" /\ result = Ok
    /\ \E p \in Page :
         /\ p \in ProtectedPages(hist[1].maps) /\ p \in PagesIn(hist[1].protected)
         /\ p \notin ProtectedPages(hist[2].maps) /\ p \in PagesIn(hist[2].writable)

(***************************************************************************)
(* The builder's life cycle.                                               *)
(***************************************************************************)
Applying == pc \in {"Bulk", "Ptrace"}

\* C12: the builder goes Building -> Applying -> Consumed: ops are added
\* only while Building, none while apply() executes, and once apply() has
\* returned (Ok or Err) the builder takes no further op and is not applied
\* again.
C12_BuilderLifeCycle ==
    /\ [][ (write_ops' # write_ops \/ sched' # sched)
             => (pc = "Building" /\ pc' = "Building") ]_vars
    /\ [][ pc = "Building" => pc' \in {"Building", "Bulk", "Consumed", "Dropped"} ]_vars
    /\ [][ Applying => (Applying' \/ pc' = "Consumed") ]_vars
    /\ [][ pc = "Consumed" =>
             /\ pc' = "Consumed"
             /\ write_ops' = write_ops /\ sched' = sched
             /\ result' = result /\ calls' = calls /\ hist' = hist
             /\ mem' = mem ]_vars
    /\ [] ( /\ pc \in {"Building", "Bulk", "Ptrace", "Consumed", "Dropped"}
            /\ (pc = "Consumed") = (result # NoResult)
            /\ Len(hist) = (IF pc \in {"Building", "Dropped"} THEN 0 ELSE 1) )

\* apply() returned an error for a builder that held two writes, and the
\* debugger went on (it read the tracee back) without the builder
C12_Witness ==
    /\ pc = "Consumed"
    /\ result \notin {NoResult, Ok, Panic}
    /\ Len(sched) = 2 /\ write_ops # << >>
    /\ readback # NoRead

\* C13: new, write and write_slice do no I/O: while the builder is being
\* built, and when it is dropped without apply(), the tracee memory is
\* untouched and no memory-map query or kernel transfer has been issued.
C13_SchedulingDoesNoIO ==
    /\ [][ (pc = "Building" /\ pc' \in {"Building", "Dropped"})
             => (mem' = mem /\ calls' = calls /\ hist' = hist /\ alive' = alive) ]_vars
    /\ [] ( pc \in {"Building", "Dropped"} =>
               /\ mem = [a \in Addr |-> Seed(a)]
               /\ calls = << >> /\ hist = << >>
               /\ result = NoResult )

\* a builder with two non-empty writes, one of them to a writable page, was
\* dropped without apply()
C13_Witness ==
    /\ pc = "Dropped"
    /\ Len(sched) = 2 /\ Len(write_ops) >= 2
    /\ \E i \in 1 .. Len(write_ops) : perms[PageOf(write_ops[i].remote_base)] = "rw"

(***************************************************************************)
(* Page splitting and classification.                                      *)
(***************************************************************************)
\* the entries of write_ops that were made from the i-th scheduled op: the
\* ones whose source bytes lie in that op's local buffer
Parts(i) ==
    SelectSeq(write_ops, LAMBDA op : /\ sched[i].local_ptr <= op.local_ptr
                                     /\ op.local_ptr < sched[i].local_ptr + sched[i].local_len)

InOnePage(op) ==
    /\ op.local_len >= 1
    /\ PageOf(op.remote_base) = PageOf(op.remote_base + op.local_len - 1)

\* C14: a non-empty op of length L at remote address A is entered in
\* write_ops as sub-ops whose lengths sum to L, that follow one another in
\* remote and in local address, each inside one remote page, the first of
\* length min(L, PAGE_SIZE - A mod PAGE_SIZE) whatever the local address;
\* so every entry of write_ops lies within one page.
C14_PageSplit ==
    /\ \A i \in 1 .. Len(sched) :
          sched[i].local_len > 0 =>
             LET parts == Parts(i)
             IN  /\ parts # << >>
                 /\ SumLen(parts) = sched[i].local_len
                 /\ parts[1].remote_base = sched[i].remote_base
                 /\ parts[1].local_ptr = sched[i].local_ptr
                 /\ parts[1].local_len =
                       Min(sched[i].local_len,
                           PAGE_SIZE - (sched[i].remote_base % PAGE_SIZE))
                 /\ \A k \in 1 .. Len(parts) - 1 :
                       /\ parts[k + 1].remote_base = parts[k].remote_base + parts[k].local_len
                       /\ parts[k + 1].local_ptr = parts[k].local_ptr + parts[k].local_len
                 /\ \A k \in 1 .. Len(parts) : InOnePage(parts[k])
    /\ \A j \in 1 .. Len(write_ops) : InOnePage(write_ops[j])
    /\ SumLen(write_ops) = SumLen(sched)

\* the second write starts at an odd local address and in the middle of a
\* remote page and runs into the next page: it was entered as two sub-ops
C14_Witness ==
    /\ Len(sched) = 2
    /\ sched[2].local_ptr % WORD_SIZE # 0
    /\ sched[2].remote_base % PAGE_SIZE # 0
    /\ Len(Parts(2)) = 2
    /\ Parts(2)[2].remote_base = PAGE_SIZE

\* how many ops of the list have the local byte b among their source bytes
Covers(ops, b) ==
    Cardinality({ i \in 1 .. Len(ops) :
                    ops[i].local_ptr <= b /\ b < ops[i].local_ptr + ops[i].local_len })

Classified == hist # << >> /\ hist[1].ok

\* C15: the two lists of the classifier are disjoint and together hold
\* every byte of the pending ops exactly once; an op that spans pages of
\* different write permission is divided at that page boundary, its parts
\* going to different lists, and the lists hold the page-split ops as they
\* are (nothing is split at a point that is not a page boundary).
C15_ClassifierPartitions ==
    Classified =>
      LET protected == hist[1].protected
          bulk == hist[1].writable
      IN  /\ \A b \in 0 .. (SumLen(sched) - 1) :
                 Covers(protected, b) + Covers(bulk, b) = 1
          /\ SumLen(protected) + SumLen(bulk) = SumLen(sched)
          /\ Len(protected) + Len(bulk) = Len(write_ops)
          /\ \A j \in 1 .. Len(write_ops) :
                 \/ \E k \in 1 .. Len(protected) : protected[k] = write_ops[j]
                 \/ \E k \in 1 .. Len(bulk) : bulk[k] = write_ops[j]
          /\ \A k \in 1 .. Len(protected) :
                 InOnePage(protected[k]) /\ perms[PageOf(protected[k].remote_base)] = "r"
          /\ \A k \in 1 .. Len(bulk) :
                 InOnePage(bulk[k]) /\ perms[PageOf(bulk[k].remote_base)] # "r"
          /\ \A i \in 1 .. Len(sched) :
                 (/\ Len(Parts(i)) = 2
                  /\ (perms[PageOf(Parts(i)[1].remote_base)] = "r")
                        # (perms[PageOf(Parts(i)[2].remote_base)] = "r"))
                 => /\ Parts(i)[2].remote_base % PAGE_SIZE = 0
                    /\ Parts(i)[2].remote_base
                          = Parts(i)[1].remote_base + Parts(i)[1].local_len
                    /\ (Covers(protected, Parts(i)[1].local_ptr) = 1)
                          # (Covers(protected, Parts(i)[2].local_ptr) = 1)

\* one write runs from a writable page into a read-only page: its first
\* part is in the bulk list, its second part in the protected list
C15_Witness ==
    /\ Classified
    /\ Len(sched) = 1 /\ Len(Parts(1)) = 2
    /\ perms[0] = "rw" /\ perms[1] = "r"
    /\ hist[1].writable = << Parts(1)[1] >>
    /\ hist[1].protected = << Parts(1)[2] >>

(***************************************************************************)
(* Zero-length ops.                                                        *)
(***************************************************************************)
ZeroOnly == sched # << >> /\ \A i \in 1 .. Len(sched) : sched[i].local_len = 0

\* C16: zero-length ops are inert: a zero-length write adds no sub-op,
\* into_word_sized_ops of a zero-length op yields no chunk, and apply() of
\* a builder that holds only zero-length writes returns, with Ok once the
\* memory map was fetched, without a transfer and without changing tracee
\* memory.
C16_ZeroLengthInert ==
    /\ [] ( /\ \A j \in 1 .. Len(write_ops) : write_ops[j].local_len > 0
            /\ \A j \in 1 .. Len(groups) : groups[j].local_len > 0
            /\ ZeroOnly => (write_ops = << >> /\ writable = << >> /\ groups = << >>)
            /\ \A a \in Addr, l \in 0 .. LocalSize :
                  into_word_sized_ops(MemoryOp(a, l, 0)) = << >> )
    /\ [] ( (ZeroOnly /\ pc = "Consumed" /\ Classified) =>
               /\ result = Ok
               /\ mem = pre
               /\ calls = << Call("memory_maps", 0, Ok) >> )
    /\ (ZeroOnly /\ Applying) ~> (pc = "Consumed" /\ result = Ok)

\* apply() has returned Ok for a builder that held two zero-length writes,
\* one of them to a read-only page
C16_Witness ==
    /\ ZeroOnly /\ Len(sched) = 2
    /\ pc = "Consumed" /\ result = Ok
    /\ \E i \in 1 .. 2 : perms[PageOf(sched[i].remote_base)] = "r"

(***************************************************************************)
(* write_process_vm on its own, inside an apply() whose classification     *)
(* found only bulk-eligible ops.  The slice of ops it is handed is drawn   *)
(* from lengths up to isize::MAX, the largest size a Rust value or slice   *)
(* has; every page is writable or not mapped.                              *)
(***************************************************************************)
BigLens == {1, ISIZE_MAX \div 2 + 1, ISIZE_MAX}

RECURSIVE OpsOf(_)
OpsOf(lens) ==
    IF lens = << >> THEN << >> ELSE << MemoryOp(0, 0, Head(lens)) >> \o OpsOf(Tail(lens))

InitSize ==
    /\ mem = [a \in Addr |-> Seed(a)]
    /\ perms \in [Page -> {"rw", "unmapped"}]
    /\ alive = TRUE
    /\ sched = << >>
    /\ pc = "Bulk"
    /\ \E n \in 1 .. MaxBulkOps : \E lens \in [1 .. n -> BigLens] :
         /\ write_ops = OpsOf(lens)
         /\ writable = OpsOf(lens)
    /\ groups = << >>
    /\ result = NoResult
    /\ pre = [a \in Addr |-> Seed(a)]
    /\ calls = << Call("memory_maps", 0, Ok) >>
    /\ readback = NoRead
    /\ it = NoIter
    /\ fmt = NoFmt
    /\ hist = << Snapshot(TRUE, memory_maps(perms),
                          [protected |-> << >>, writable |-> writable]) >>
    /\ iov = NoIov
    /\ part = NoPart
    /\ rv = NoRv
    /\ cli = NoCli
    /\ dec = NoDec

NextSize == ApplyBulk \/ PtraceDone

SpecSize == InitSize /\ [][NextSize]_vars

\* C17: when the lengths of the bulk-eligible ops total more than
\* isize::MAX, write_process_vm panics before the vectored kernel transfer
\* is issued; it returns no Error value.
C17_OversizePanics ==
    [][ (pc = "Bulk" /\ SumLen(writable) > ISIZE_MAX)
        => /\ pc' = "Consumed" /\ result' = Panic
           /\ calls' = calls
           /\ mem' = mem ]_vars

\* C18: the running sum of local_len in write_process_vm stays within the
\* machine word, so the oversize check sees the true total: a transfer is
\* issued only for a true total of at most isize::MAX, and a short write is
\* reported against the true total.
C18_NoWrapAround ==
    pc = "Consumed" =>
       /\ (\E i \in 1 .. Len(calls) : calls[i].op = "process_vm_writev")
             => SumLen(writable) <= ISIZE_MAX
       /\ result.tag = "IncompleteRead" => result.req = SumLen(writable)

(***************************************************************************)
(* systrace: decode(tracee, syscall, args) and the formatters it calls.    *)
(* A text is a sequence of characters.                                     *)
(***************************************************************************)
NULL == << "N", "U", "L", "L" >>
\* the token the formatters return for a value they could not read
Placeholder == << "?", "?", "?" >>

Digits == << "0", "1", "2", "3", "4", "5", "6", "7", "8", "9",
             "a", "b", "c", "d", "e", "f" >>

\* the digits of n >= 0 in the given base, most significant first
RECURSIVE Radix(_, _)
Radix(n, base) ==
    IF n < base THEN << Digits[n + 1] >>
    ELSE Radix(n \div base, base) \o << Digits[(n % base) + 1] >>

\* i64 / u64 ::to_string()
to_string_unsigned(n) == Radix(IF n < 0 THEN -n ELSE n, 10)
to_string(n) == IF n < 0 THEN << "-" >> \o Radix(-n, 10) ELSE Radix(n, 10)

format_ptr(addr) == IF addr = 0 THEN NULL ELSE << "0", "x" >> \o Radix(addr, 16)

format_fd(fd) ==
    CASE fd = 0 -> << "s", "t", "d", "i", "n" >>
      [] fd = 1 -> << "s", "t", "d", "o", "u", "t" >>
      [] fd = 2 -> << "s", "t", "d", "e", "r", "r" >>
      [] OTHER -> to_string(fd)

\* print_delimited![str, x, xs..]: the items joined with ", "
RECURSIVE print_delimited(_)
print_delimited(items) ==
    IF items = << >> THEN << >>
    ELSE IF Len(items) = 1 THEN Head(items)
    ELSE Head(items) \o << ",", " " >> \o print_delimited(Tail(items))

\* char::escape_default for the characters the modelled tracee memory holds
\* (control characters)
escape_default(b) ==
    CASE b = 9 -> << "\\", "t" >>
      [] b = 10 -> << "\\", "n" >>
      [] b = 13 -> << "\\", "r" >>
      [] b < 32 /\ b \notin {9, 10, 13} -> << "\\", "u", "{" >> \o Radix(b, 16) \o << "}" >>

RECURSIVE Escaped(_)
Escaped(bytes) ==
    IF bytes = << >> THEN << >> ELSE escape_default(Head(bytes)) \o Escaped(Tail(bytes))

\* if data.len() > 60 { data.truncate(57); data += ".."; }
STR_MAX == 60
STR_KEEP == 57
Shorten(data) ==
    IF Len(data) > STR_MAX THEN SubSeq(data, 1, STR_KEEP) \o << ".", "." >> ELSE data

Quoted(data) == << "\"" >> \o data \o << "\"" >>

\* read_op.is_err()
IsErrNever(read_op) == FALSE
IsErr(read_op) == read_op # Ok

\* size_of::<FdSet>(), scaled to one machine word
FDSET_SIZE == WORD_SIZE

\* FdSet::fds(None): the descriptors whose bit is set, in increasing order
RECURSIVE FdsFrom(_, _)
FdsFrom(word, fd) ==
    IF word = 0 THEN << >>
    ELSE (IF word % 2 = 1 THEN << fd >> ELSE << >>) \o FdsFrom(word \div 2, fd + 1)

RECURSIVE FormatFds(_)
FormatFds(fds) ==
    IF fds = << >> THEN << >>
    ELSE << format_fd(Head(fds)) >> \o FormatFds(Tail(fds))

\* every formatter returns its text and the result of its ReadMemory apply()
\* (NoResult when it made none)
format_fdset(exists, addr) ==
    IF addr = 0 THEN [fn |-> "format_fdset", read |-> NoResult, text |-> NULL]
    ELSE LET r == read_apply(mem, exists, addr, FDSET_SIZE)
         IN  IF IsErr(r.result)
             THEN [fn |-> "format_fdset", read |-> r.result, text |-> Placeholder]
             ELSE [fn |-> "format_fdset", read |-> r.result,
                   text |-> << "[" >>
                              \o print_delimited(FormatFds(FdsFrom(from_ne_bytes(r.bytes), 0)))
                              \o << "]" >>]

\* size_of::<char>()
CHAR_SIZE == 4


\* format_str up to the match on read_op: the count asked for, the result
\* of apply() and the bytes the Vec holds after set_len
str_read(exists, addr, len) ==
    LET count == Min(len, STR_MAX * CHAR_SIZE)
        r == read_apply(mem, exists, addr, count)
    IN  [count |-> count, result |-> r.result,
         bytes |-> SubSeq(Buffer(r.bytes, count), 1, SetLen(r.result, count))]

\* format_str once the read has returned
quote_str(b) ==
    IF b.result # Ok /\ b.result.tag # "IncompleteRead"
    THEN [fn |-> "format_str", read |-> b.result, text |-> Placeholder]
    ELSE [fn |-> "format_str", read |-> b.result,
          text |-> Quoted(Shorten(Escaped(b.bytes)))]

format_str(exists, addr, len) ==
    IF addr = 0 THEN [fn |-> "format_str", read |-> NoResult, text |-> NULL]
    ELSE Only({ quote_str(b) : b \in {str_read(exists, addr, len)} })

\* let mut bytes = vec![0; *PAGE_SIZE / 2]
C_STR_BUF == PAGE_SIZE \div 2

\* bytes.iter().position(|&b| b == b'\0'): 0 when there is none
Position0(bytes) ==
    IF \E i \in 1 .. Len(bytes) : bytes[i] = 0
    THEN CHOOSE i \in 1 .. Len(bytes) : bytes[i] = 0 /\ \A j \in 1 .. (i - 1) : bytes[j] # 0
    ELSE 0

\* the bytes of the C string without its terminator; kind is "NULL", "???"
\* or "data"
read_c_str(exists, addr) ==
    IF addr = 0 THEN [kind |-> "NULL", read |-> NoResult, bytes |-> << >>]
    ELSE LET r == read_apply(mem, exists, addr, C_STR_BUF)
             buf == [i \in 1 .. C_STR_BUF |-> IF i <= Len(r.bytes) THEN r.bytes[i] ELSE 0]
             bytes == IF r.result = Ok THEN buf ELSE SubSeq(buf, 1, r.result.read)
             terminator == Position0(bytes)
         IN  IF r.result # Ok /\ r.result.tag # "IncompleteRead"
             THEN [kind |-> "???", read |-> r.result, bytes |-> << >>]
             ELSE [kind |-> "data", read |-> r.result,
                   bytes |-> IF terminator # 0 THEN SubSeq(bytes, 1, terminator - 1)
                             ELSE SubSeq(bytes, 1, Len(bytes) - 1)]

\* format_c_str once read_c_str has returned s
quote_c_str(s) ==
    LET data == CASE s.kind = "NULL" -> NULL
                  [] s.kind = "???" -> Placeholder
                  [] OTHER -> Escaped(s.bytes)
    IN  [fn |-> "format_c_str", read |-> s.read, text |-> Quoted(Shorten(data))]

format_c_str(exists, addr) ==
    Only({ quote_c_str(s) : s \in {read_c_str(exists, addr)} })

\* libc::SYS_* of the arms of decode that are modelled
SYS_read == 0
SYS_close == 3
SYS_stat == 4
SYS_select == 23
SYS_getpid == 39

\* an argument that is formatted without reading the tracee
Plain(text) == [fn |-> "plain", read |-> NoResult, text |-> text]

\* the arguments the arm of the syscall formats, in order; Unknown for a
\* code without an arm
Unknown == << Plain(<< ".", "." >>) >>
Arm(exists, syscall, args) ==
    CASE syscall = SYS_read ->
           << Plain(format_fd(args[1])), format_str(exists, args[2], args[3]),
              Plain(to_string(args[3])) >>
      [] syscall = SYS_close -> << Plain(format_fd(args[1])) >>
      [] syscall = SYS_stat ->
           << format_c_str(exists, args[1]), Plain(format_ptr(args[2])) >>
      [] syscall = SYS_select ->
           << Plain(to_string(args[1])), format_fdset(exists, args[2]),
              format_fdset(exists, args[3]), format_fdset(exists, args[4]),
              Plain(format_ptr(args[5])) >>
      [] syscall = SYS_getpid -> << >>
      [] OTHER -> Unknown

\* decode once the arm has formatted the arguments
finish(exists, syscall, args, items) ==
    [syscall |-> syscall, args |-> args, alive |-> exists, reads |-> items,
     text |-> to_string(syscall) \o << "(" >>
                 \o print_delimited([i \in 1 .. Len(items) |-> items[i].text])
                 \o << ")" >>]

decode(exists, syscall, args) ==
    Only({ finish(exists, syscall, args, items) : items \in {Arm(exists, syscall, args)} })

Syscalls == {SYS_read, SYS_close, SYS_stat, SYS_select, SYS_getpid, -1, 1000}

\* the number of leading arguments the arm of the syscall looks at whose
\* value is drawn; the registers the arm ignores (and the pointer that
\* select only prints) hold 0
Used(syscall) ==
    CASE syscall = SYS_read -> 3
      [] syscall = SYS_close -> 1
      [] syscall = SYS_stat -> 2
      [] syscall = SYS_select -> 4
      [] OTHER -> 0

\* one syscall stop is decoded: decode changes nothing in the tracee, a
\* second decode at the same stop would see what the first saw
Decode ==
    /\ dec = NoDec
    /\ \E syscall \in Syscalls, gone \in BOOLEAN :
         \E a \in [1 .. Used(syscall) -> 0 .. MaxArg] :
            /\ alive' = (alive /\ ~gone)
            /\ dec' = decode(alive /\ ~gone, syscall,
                             a \o [i \in 1 .. (6 - Used(syscall)) |-> 0])
    /\ UNCHANGED << rv, cli, part, iov, hist, mem, perms, write_ops, sched, pc, writable, groups, result,
                    pre, calls, readback, it, fmt >>

\* the tracee stopped at a syscall: nothing is scheduled, its pages are
\* readable or not mapped
InitDecode ==
    /\ Init
    /\ \A p \in Page : perms[p] \in {"r", "unmapped"}

NextDecode == Decode

SpecDecode == InitDecode /\ [][NextDecode]_vars

Decoded == dec.text # << >>

\* the apply() of the formatter's read returned an error
ReadFailed(item) == item.read \notin {NoResult, Ok}

ShowsPlaceholder(item) == item.text \in {Placeholder, Quoted(Placeholder)}

\* the text ends the syscall: code, "(", the arguments, ")"
Complete(text) ==
    /\ Len(text) >= 3
    /\ text[Len(text)] = ")"
    /\ \E k \in 1 .. (Len(text) - 2) :
         /\ text[k + 1] = "("
         /\ \A j \in 1 .. k : text[j] \in {"-", "0", "1", "2", "3", "4", "5", "6", "7", "8", "9"}

\* the number of arguments the arm of a known syscall formats
Arity(syscall) ==
    CASE syscall = SYS_read -> 3
      [] syscall = SYS_close -> 1
      [] syscall = SYS_stat -> 2
      [] syscall = SYS_select -> 5
      [] syscall = SYS_getpid -> 0
      [] OTHER -> 1

RECURSIVE Concat(_)
Concat(chars) == IF chars = << >> THEN "" ELSE Head(chars) \o Concat(Tail(chars))

KnownSyscalls == {SYS_read, SYS_close, SYS_stat, SYS_select, SYS_getpid}

NewCalls == SubSeq(calls', Len(calls) + 1, Len(calls'))

\* the bytes of the tracee word at address a
WordAt(m, a) == [i \in 1 .. WORD_SIZE |-> m[a + i - 1]]

\* C21: a chunk of exactly WORD_SIZE bytes is written with one ptrace write
\* and no read before it; a shorter chunk makes one ptrace read and, once
\* that has returned, one ptrace write of the word read with only the
\* chunk's bytes replaced; a chunk costs one or two calls, never more.
C21_ChunkCalls ==
    [][(pc = "Ptrace" /\ groups # << >> /\ calls' # calls) =>
          LET op == Head(groups)
              new == NewCalls
          IN  /\ Len(new) \in {1, 2}
              /\ \A i \in 1 .. Len(new) : new[i].arg = op.remote_base
              /\ op.local_len = WORD_SIZE =>
                    /\ Len(new) = 1 /\ new[1].op = "ptrace_write"
                    /\ new[1].ok => WordAt(mem', op.remote_base)
                                       = LocalBytes(op.local_ptr, WORD_SIZE)
              /\ op.local_len < WORD_SIZE =>
                    /\ new[1].op = "ptrace_read"
                    /\ Len(new) = 1 => ~new[1].ok
                    /\ Len(new) = 2 =>
                          /\ new[1].ok /\ new[2].op = "ptrace_write"
                          /\ new[2].ok =>
                                \A i \in 1 .. WORD_SIZE :
                                   mem'[op.remote_base + i - 1] =
                                      IF i <= op.local_len
                                      THEN LocalBytes(op.local_ptr, op.local_len)[i]
                                      ELSE mem[op.remote_base + i - 1]]_vars

\* apply() wrote a whole word without reading and then a shorter chunk
\* with a read directly before its write
C21_Witness ==
    /\ pc = "Consumed" /\ result = Ok
    /\ \E i \in 2 .. Len(calls) :
          /\ calls[i].op = "ptrace_write" /\ calls[i - 1].op # "ptrace_read"
          /\ Len(calls) = i + 2
          /\ calls[i + 1].op = "ptrace_read" /\ calls[i + 2].op = "ptrace_write"
          /\ calls[i + 1].arg = calls[i].arg + WORD_SIZE

(***************************************************************************)
(* The bulk call of apply().                                               *)
(***************************************************************************)
\* the number of process_vm_writev calls among the calls of this apply()
BulkCalls == Cardinality({i \in 1 .. Len(calls) : calls[i].op = "process_vm_writev"})

\* the op lies in no mapping that lacks write permission
BulkEligible(op) == perms[PageOf(op.remote_base)] # "r"

\* C22: an apply() that classified its ops issues exactly one
\* process_vm_writev call when at least one op is bulk-eligible and none
\* otherwise; the call carries every bulk-eligible op, in scheduling order,
\* local vector i and remote vector i being the two sides of the same op.
C22_OneBulkCall ==
    /\ BulkCalls <= 1
    /\ pc \in {"Building", "Bulk"} => BulkCalls = 0 /\ iov = NoIov
    /\ (pc \in {"Ptrace", "Consumed"} /\ hist # << >>) =>
          LET eligible == SelectSeq(write_ops, BulkEligible)
          IN  IF hist[Len(hist)].ok /\ eligible # << >>
              THEN /\ BulkCalls = 1
                   /\ calls[2].op = "process_vm_writev"
                   /\ Len(iov.local) = Len(eligible) /\ Len(iov.remote) = Len(eligible)
                   /\ \A i \in 1 .. Len(eligible) :
                         /\ iov.local[i] = [base |-> eligible[i].local_ptr,
                                            len |-> eligible[i].local_len]
                         /\ iov.remote[i] = [base |-> eligible[i].remote_base,
                                             len |-> eligible[i].local_len]
              ELSE BulkCalls = 0 /\ iov = NoIov

\* one call carried two ops that were scheduled against the address order,
\* and apply() returned Ok
C22_Witness ==
    /\ pc = "Consumed" /\ result = Ok /\ BulkCalls = 1
    /\ Len(iov.remote) = 2
    /\ iov.remote[1].base > iov.remote[2].base
    /\ iov.local[1].base < iov.local[2].base

(***************************************************************************)
(* The order of the two strategies.                                        *)
(***************************************************************************)
PtraceCalls == {i \in 1 .. Len(calls) : calls[i].op \in {"ptrace_read", "ptrace_write"}}

\* the bulk call of this apply() failed or was short
BulkFailed == \E i \in 1 .. Len(calls) : calls[i].op = "process_vm_writev" /\ ~calls[i].ok

MapsFailed == calls # << >> /\ calls[1].op = "memory_maps" /\ ~calls[1].ok

\* C24: when the fetch of the tracee's memory maps fails, apply() returns
\* that error, the fetch is its only call (no bulk and no ptrace transfer),
\* and tracee memory is as it was.
C24_MapsFailureStopsApply ==
    /\ [][(pc = "Building" /\ pc' \notin {"Building", "Dropped"} /\ ~alive') =>
             /\ pc' = "Consumed"
             /\ Len(calls') = 1 /\ calls'[1].op = "memory_maps"
             /\ result' = calls'[1].res /\ result' \notin {Ok, NoResult}
             /\ mem' = mem]_vars
    /\ [](MapsFailed =>
             /\ pc = "Consumed" /\ Len(calls) = 1 /\ result = calls[1].res
             /\ PtraceCalls = {} /\ BulkCalls = 0 /\ iov = NoIov
             /\ mem = pre)

\* writes to a writable and to a protected page were scheduled and the
\* fetch failed
C24_Witness ==
    /\ MapsFailed /\ pc = "Consumed"
    /\ \E i, j \in 1 .. Len(write_ops) :
          /\ write_ops[i].local_len > 0 /\ perms[PageOf(write_ops[i].remote_base)] = "rw"
          /\ write_ops[j].local_len > 0 /\ perms[PageOf(write_ops[j].remote_base)] = "r"

(***************************************************************************)
(* Overlapping writes.                                                     *)
(***************************************************************************)
\* the scheduled writes whose remote range holds the address
Writers(a) == {i \in 1 .. Len(sched) : a \in RangeOf(sched[i])}

\* the write to the address that was scheduled last
LastWriter(a) == CHOOSE i \in Writers(a) : \A j \in Writers(a) : j <= i

\* C25: after an apply() that returned Ok, every tracee byte that a
\* scheduled write covers holds the source byte of the write to it that
\* was scheduled last, also where writes overlap.
C25_LaterWriteWins ==
    (pc = "Consumed" /\ result = Ok) =>
        \A a \in Scheduled :
            LET op == sched[LastWriter(a)]
            IN  mem[a] = Local(op.local_ptr + (a - op.remote_base))

\* two writes overlap in a byte for which they carry different data, and
\* apply() returned Ok: through the bulk call, or through ptrace
C25_OverlapApplied ==
    /\ pc = "Consumed" /\ result = Ok /\ Len(sched) = 2
    /\ \E a \in RangeOf(sched[1]) \cap RangeOf(sched[2]) :
          Local(sched[1].local_ptr + (a - sched[1].remote_base))
             # Local(sched[2].local_ptr + (a - sched[2].remote_base))

C25_Witness == C25_OverlapApplied /\ BulkCalls = 1 /\ PtraceCalls = {}

C25_WitnessFallback == C25_OverlapApplied /\ BulkCalls = 0 /\ PtraceCalls # {}

(***************************************************************************)
(* The tracee bytes the fallback strategy touches.                         *)
(***************************************************************************)
\* ceil(L / W) for the op
ChunksOf(op) == (op.local_len + WORD_SIZE - 1) \div WORD_SIZE

\* [A, A + ceil(L/W) * W)
WordSpan(op) == op.remote_base .. (op.remote_base + ChunksOf(op) * WORD_SIZE - 1)

\* the ops the running apply() classified as protected
ProtectedOps ==
    IF hist # << >> /\ hist[Len(hist)].ok THEN hist[Len(hist)].protected ELSE << >>

\* C26: for a protected op of L bytes at A, every word access of the
\* fallback strategy is issued at A + i * W with i < ceil(L/W), so it lies
\* inside [A, A + ceil(L/W) * W) and never below A, whatever the alignment
\* of A; and a step of the fallback changes tracee values only inside the
\* chunk it writes, which lies inside [A, A + L).
C26_FallbackFootprint ==
    /\ [](\A c \in PtraceCalls :
             \E k \in 1 .. Len(ProtectedOps) : \E i \in 0 .. (ChunksOf(ProtectedOps[k]) - 1) :
                /\ calls[c].arg = ProtectedOps[k].remote_base + i * WORD_SIZE
                /\ calls[c].arg .. (calls[c].arg + WORD_SIZE - 1) \subseteq WordSpan(ProtectedOps[k]))
    /\ [](pc = "Ptrace" =>
             \A g \in 1 .. Len(groups) : \E k \in 1 .. Len(ProtectedOps) :
                RangeOf(groups[g]) \subseteq RangeOf(ProtectedOps[k]))
    /\ [][(pc = "Ptrace" /\ groups # << >>) =>
             \A a \in Addr : mem'[a] # mem[a] => a \in RangeOf(Head(groups))]_vars

\* a protected op of three bytes at an odd address was written: a whole
\* word at A, then a read and a write of the word at A + W, which reaches
\* one byte past the op
C26_Witness ==
    /\ pc = "Consumed" /\ result = Ok
    /\ Len(ProtectedOps) = 1
    /\ ProtectedOps[1].remote_base % WORD_SIZE # 0
    /\ ProtectedOps[1].local_len = WORD_SIZE + 1
    /\ Cardinality(PtraceCalls) = 3
    /\ calls[Len(calls)].arg = ProtectedOps[1].remote_base + WORD_SIZE
    /\ mem # pre

(***************************************************************************)
(* systrace: the formatters that keep what a partial read transferred:     *)
(* format_array::<T>, format_bytes_u8 and format_str.                      *)
(***************************************************************************)
\* std::cmp::min(len as usize, 20) of format_array
ARRAY_LIMIT == 20

\* let values_read = read / std::mem::size_of::<T>()
ValuesReadBytes(read, size) == read
ValuesRead(read, size) == read \div size

\* the elements of size bytes each that the first n * size bytes make up
Elements(bytes, n, size) ==
    [e \in 1 .. n |-> SubSeq(bytes, (e - 1) * size + 1, e * size)]

\* format_array::<T>(proc, addr, len) for a T of size bytes, addr # 0: the
\* read of count elements and the values the Vec holds after set_len
format_array(exists, addr, len, size) ==
    LET count == Min(len, ARRAY_LIMIT)
        r == read_apply(mem, exists, addr, count * size)
        kept == IF r.result = Ok THEN count
                ELSE IF r.result.tag = "IncompleteRead"
                THEN ValuesRead(r.result.read, size)
                ELSE 0
    IN  [fn |-> "format_array", addr |-> addr, len |-> len, size |-> size,
         count |-> count, result |-> r.result, kept |-> kept,
         values |-> Elements(Buffer(r.bytes, count * size), kept, size)]

\* what format_bytes_u8 and format_str keep, in the same form
BytesKept(f, addr, len) ==
    [fn |-> "format_bytes_u8", addr |-> addr, len |-> len, size |-> 1,
     count |-> f.count, result |-> f.result, kept |-> Len(f.bytes),
     values |-> Elements(f.bytes, Len(f.bytes), 1)]

StrKept(b, addr, len) ==
    [fn |-> "format_str", addr |-> addr, len |-> len, size |-> 1,
     count |-> b.count, result |-> b.result, kept |-> Len(b.bytes),
     values |-> Elements(b.bytes, Len(b.bytes), 1)]

\* the lengths given to the formatters: short ones, and ones at and above
\* the 240 bytes format_str asks for at most
PartLens == (0 .. MaxFmtLen) \cup {STR_MAX * CHAR_SIZE, STR_MAX * CHAR_SIZE + 1}

FormatArray ==
    /\ part = NoPart
    /\ \E addr \in Addr \ {0}, len \in PartLens, size \in 1 .. MaxElem, gone \in BOOLEAN :
         /\ alive' = (alive /\ ~gone)
         /\ part' = format_array(alive /\ ~gone, addr, len, size)
    /\ UNCHANGED << rv, cli, iov, hist, dec, mem, perms, write_ops, sched, pc, writable, groups,
                    result, pre, calls, readback, it, fmt >>

FormatBytes ==
    /\ part = NoPart
    /\ \E addr \in Addr \ {0}, len \in PartLens, gone \in BOOLEAN :
         /\ alive' = (alive /\ ~gone)
         /\ part' \in { BytesKept(f, addr, len) :
                          f \in {format_bytes_u8(alive /\ ~gone, addr, len)} }
    /\ UNCHANGED << rv, cli, iov, hist, dec, mem, perms, write_ops, sched, pc, writable, groups,
                    result, pre, calls, readback, it, fmt >>

FormatStr ==
    /\ part = NoPart
    /\ \E addr \in Addr \ {0}, len \in PartLens, gone \in BOOLEAN :
         /\ alive' = (alive /\ ~gone)
         /\ part' \in { StrKept(b, addr, len) :
                          b \in {str_read(alive /\ ~gone, addr, len)} }
    /\ UNCHANGED << rv, cli, iov, hist, dec, mem, perms, write_ops, sched, pc, writable, groups,
                    result, pre, calls, readback, it, fmt >>

NextPartial == FormatArray \/ FormatBytes \/ FormatStr

SpecPartial == Init /\ [][NextPartial]_vars

\* the limit of the formatter, in elements
LimitOf(fn) == IF fn = "format_str" THEN 240 ELSE 20

C27_WitnessStr ==
    /\ part.fn = "format_str" /\ part.len > 240 /\ part.count = 240
    /\ part.result.tag = "IncompleteRead" /\ part.kept = part.result.read

(***************************************************************************)
(* The RISC-V decoder, src/disassembler/riscv.rs.  next() looks at the     *)
(* bytes of the stream from stream.start on and returns one instruction    *)
(* with its width, or an error.  Operands are left out: no operand of an   *)
(* instruction changes its width or the error returned, except the         *)
(* destination register of auipc, which is kept.                           *)
(***************************************************************************)

\* the longest byte buffer of a stream
MaxStream == 4

\* the byte values the buffers are built from: 0x00 and 0x01 (compressed),
\* 0x03 (lb), 0x0f (fence), 0x13 (addi), 0x17 (auipc), 0x73 (ecall), 0x80
RvByteValues == {0, 1, 3, 15, 19, 23, 115, 128}

RvArch == {"Riscv32", "Riscv64"}

\* (x >> lo) & (2^n - 1)
Bits(x, lo, n) == (x \div (2 ^ lo)) % (2 ^ n)

RvOk(width, mnemomic) == [kind |-> "Ok", width |-> width, mnemomic |-> mnemomic]
RvErr(error) == [kind |-> error, width |-> 0, mnemomic |-> ""]

\* the 16-bit encodings; bytes is the value as u16
rv_compressed(bytes, arch) ==
    LET opcode == Bits(bytes, 0, 2)
        jump3 == Bits(bytes, 13, 3)
        f1 == Bits(bytes, 12, 1)
        f2 == Bits(bytes, 7, 5)
        f3 == Bits(bytes, 2, 5)
        a32 == arch = "Riscv32"
        a64 == arch = "Riscv64"
    IN  CASE opcode = 0 ->
                 CASE jump3 = 0 -> RvOk(2, "addi4spn")
                   [] jump3 = 1 -> RvOk(2, "fld")
                   [] jump3 = 2 -> RvOk(2, "lw")
                   [] jump3 = 3 /\ a32 -> RvOk(2, "flw")
                   [] jump3 = 3 /\ a64 -> RvOk(2, "ld")
                   [] jump3 = 5 -> RvOk(2, "fsd")
                   [] jump3 = 6 -> RvOk(2, "sw")
                   [] jump3 = 7 /\ a32 -> RvOk(2, "fsw")
                   [] jump3 = 7 /\ a64 -> RvOk(2, "sd")
                   [] OTHER -> RvErr("UnknownOpcode")
          [] opcode = 1 ->
                 CASE jump3 = 0 /\ f2 = 0 -> RvOk(2, "nop")
                   [] jump3 = 0 /\ f2 # 0 -> RvOk(2, "addi")
                   [] jump3 = 1 /\ a32 -> RvOk(2, "jal")
                   [] jump3 = 1 /\ a64 -> RvOk(2, "addiw")
                   [] jump3 = 2 -> RvOk(2, "li")
                   [] jump3 = 3 /\ f2 = 2 -> RvOk(2, "addi16sp")
                   [] jump3 = 3 /\ f2 # 2 -> RvOk(2, "lui")
                   \* f2 has five bits, so f2 >> 10 & 0b11 is always 0
                   [] jump3 = 4 /\ Bits(f2, 10, 2) = 0 -> RvOk(2, "srli")
                   [] jump3 = 4 /\ Bits(f2, 10, 2) = 1 -> RvOk(2, "srai")
                   [] jump3 = 5 -> RvOk(2, "jal")
                   [] jump3 = 6 -> RvOk(2, "beqz")
                   [] jump3 = 7 -> RvOk(2, "bnez")
                   [] OTHER -> RvErr("UnknownOpcode")
          [] opcode = 2 ->
                 CASE jump3 = 0 -> RvOk(2, "slli")
                   [] jump3 = 1 -> RvOk(2, "fldsp")
                   [] jump3 = 2 -> RvOk(2, "lwsp")
                   [] jump3 = 3 /\ a32 -> RvOk(2, "flwsp")
                   [] jump3 = 3 /\ a64 -> RvOk(2, "ldsp")
                   [] jump3 = 4 /\ f1 = 0 /\ f3 = 0 -> RvOk(2, "jalr")
                   [] jump3 = 4 /\ f1 = 0 /\ f3 # 0 -> RvOk(2, "mv")
                   [] jump3 = 4 /\ f1 = 1 /\ f2 = 0 /\ f3 = 0 -> RvOk(2, "ebreak")
                   [] jump3 = 4 /\ f1 = 1 /\ f2 # 0 /\ f3 = 0 -> RvOk(2, "jalr")
                   [] jump3 = 4 /\ f1 = 1 /\ f2 # 0 /\ f3 # 0 -> RvOk(2, "add")
                   [] jump3 = 5 -> RvOk(2, "fsdsp")
                   [] jump3 = 6 -> RvOk(2, "swsp")
                   [] jump3 = 7 /\ a32 -> RvOk(2, "fswsp")
                   [] jump3 = 7 /\ a64 -> RvOk(2, "sdsp")
                   [] OTHER -> RvErr("UnknownOpcode")
          [] OTHER -> RvErr("UnknownOpcode")

\* the mnemonic of a 32-bit encoding by opcode (bytes & 0b1111111), funct3
\* (bytes >> 12 & 0b111) and funct7 (bytes >> 25), or "".  The value is kept
\* as its two 16-bit halves, bytes = lo + 65536 * hi.
rv_mnemomic(bytes, arch) ==
    LET opcode == Bits(bytes.lo, 0, 7)
        funct3 == Bits(bytes.lo, 12, 3)
        funct7 == Bits(bytes.hi, 9, 7)
        a64 == arch = "Riscv64"
        a32 == arch = "Riscv32"
    IN  CASE opcode = 55 -> "lui"
          [] opcode = 23 -> "auipc"
          [] opcode = 111 -> "jal"
          [] opcode = 103 -> "jalr"
          [] opcode = 99 ->
                 CASE funct3 = 0 -> "beq" [] funct3 = 1 -> "bne"
                   [] funct3 = 4 -> "blt" [] funct3 = 5 -> "bge"
                   [] funct3 = 6 -> "bltu" [] funct3 = 7 -> "bgeu"
                   [] OTHER -> ""
          [] opcode = 3 ->
                 CASE funct3 = 0 -> "lb" [] funct3 = 1 -> "lh"
                   [] funct3 = 2 -> "lw" [] funct3 = 3 /\ a64 -> "ld"
                   [] funct3 = 4 -> "lbu" [] funct3 = 5 -> "lhu"
                   [] funct3 = 6 /\ a64 -> "lwu"
                   [] OTHER -> ""
          [] opcode = 35 ->
                 CASE funct3 = 0 -> "sb" [] funct3 = 1 -> "sh"
                   [] funct3 = 2 -> "sw" [] funct3 = 3 /\ a64 -> "sd"
                   [] OTHER -> ""
          [] opcode = 19 ->
                 CASE funct3 = 0 -> "addi" [] funct3 = 2 -> "alti"
                   [] funct3 = 3 -> "altiu" [] funct3 = 4 -> "xori"
                   [] funct3 = 6 -> "ori" [] funct3 = 7 -> "andi"
                   [] funct3 = 1 -> "slli"
                   [] funct3 = 5 /\ funct7 = 0 -> "srli"
                   [] funct3 = 5 /\ funct7 = 32 -> "srai"
                   [] OTHER -> ""
          [] opcode = 27 ->
                 CASE a32 -> ""
                   [] ~a32 /\ funct3 = 0 -> "addiw"
                   [] ~a32 /\ funct3 = 1 -> "slliw"
                   [] ~a32 /\ funct3 = 5 /\ funct7 = 0 -> "srliw"
                   [] ~a32 /\ funct3 = 5 /\ funct7 = 32 -> "sraiw"
                   [] OTHER -> ""
          [] opcode = 51 ->
                 CASE funct7 = 0 ->
                          CASE funct3 = 0 -> "add" [] funct3 = 1 -> "sll"
                            [] funct3 = 2 -> "slt" [] funct3 = 3 -> "sltu"
                            [] funct3 = 4 -> "xor" [] funct3 = 5 -> "srl"
                            [] funct3 = 6 -> "or" [] funct3 = 7 -> "and"
                            [] OTHER -> ""
                   [] funct7 = 32 ->
                          CASE funct3 = 0 -> "sub" [] funct3 = 5 -> "sra"
                            [] OTHER -> ""
                   [] OTHER -> ""
          [] opcode = 59 ->
                 CASE a32 -> ""
                   [] ~a32 /\ funct7 = 0 ->
                          CASE funct3 = 0 -> "addw" [] funct3 = 1 -> "sllw"
                            [] funct3 = 5 -> "srlw"
                            [] OTHER -> ""
                   [] ~a32 /\ funct7 = 32 ->
                          CASE funct3 = 0 -> "subw" [] funct3 = 5 -> "sraw"
                            [] OTHER -> ""
                   [] OTHER -> ""
          [] OTHER -> ""

\* REGISTERS[6] is "t2": the auipc entry of PSUEDOS stops at todo!() for it
rv_full(bytes, arch) ==
    LET mnemomic == rv_mnemomic(bytes, arch)
    IN  IF mnemomic = "" THEN RvErr("UnknownOpcode")
        ELSE IF mnemomic = "auipc" /\ Bits(bytes.lo, 7, 4) = 6 THEN RvErr("Panic")
        ELSE RvOk(4, mnemomic)

\* the value next() decodes: a u16 when two or three bytes are left, a u32
\* when four or more are
rv_bytes(rest) ==
    IF Len(rest) < 4
    THEN [lo |-> rest[1] + 256 * rest[2], hi |-> 0]
    ELSE [lo |-> rest[1] + 256 * rest[2], hi |-> rest[3] + 256 * rest[4]]

\* bytes as u16 & 0b11 != 0b11
IsCompressed(lo) == Bits(lo, 0, 2) # 3

rv_decode(bytes, arch) ==
    IF IsCompressed(bytes.lo) THEN rv_compressed(bytes.lo, arch)
    ELSE IF Bits(bytes.lo, 0, 7) = 15 THEN RvOk(4, "fence")
    ELSE IF bytes = [lo |-> 115, hi |-> 0] THEN RvOk(4, "ecall")
    ELSE IF bytes = [lo |-> 115, hi |-> 16] THEN RvOk(4, "ebreak")
    ELSE rv_full(bytes, arch)

\* stream.bytes.get(stream.start..): the bytes left, none past the end
Remaining(stream) ==
    IF stream.start > Len(stream.bytes) THEN << >>
    ELSE SubSeq(stream.bytes, stream.start + 1, Len(stream.bytes))

next(stream) ==
    IF stream.start > Len(stream.bytes) THEN RvErr("NoBytesLeft")
    ELSE IF Len(Remaining(stream)) < 2 THEN RvErr("NoBytesLeft")
    ELSE rv_decode(rv_bytes(Remaining(stream)), stream.arch)

\* a stream over a byte buffer, positioned at its first byte
RvOpen ==
    /\ rv = NoRv
    /\ \E n \in 0 .. MaxStream, arch \in RvArch :
         \E bytes \in [1 .. n -> RvByteValues] :
            rv' = [bytes |-> bytes, start |-> 0, from |-> 0, arch |-> arch,
                   ret |-> NoRet]
    /\ UNCHANGED << cli, part, iov, hist, dec, mem, perms, alive, write_ops, sched,
                    pc, writable, groups, result, pre, calls, readback, it, fmt >>

\* one turn of the caller's loop: next(), and on Ok the stream moves on by
\* the width of the instruction; the loop ends at the first error
RvNext ==
    /\ rv.arch \in RvArch
    /\ rv.ret.kind \in {"none", "Ok"}
    /\ rv' = [rv EXCEPT !.ret = next(rv),
                        !.from = rv.start,
                        !.start = rv.start + next(rv).width]
    /\ UNCHANGED << cli, part, iov, hist, dec, mem, perms, alive, write_ops, sched,
                    pc, writable, groups, result, pre, calls, readback, it, fmt >>

NextRiscv == RvOpen \/ RvNext

\* the decoder does not look at the tracee: one page table is enough
InitRiscv == Init /\ perms = [p \in Page |-> "rw"]

SpecRiscv == InitRiscv /\ [][NextRiscv]_vars

\* the bytes that were left in the stream when the last next() was called
LeftBefore == IF rv.from > Len(rv.bytes) THEN 0 ELSE Len(rv.bytes) - rv.from

\* the instruction the last next() looked at was a compressed encoding
WasCompressed ==
    /\ LeftBefore >= 2
    /\ IsCompressed(rv.bytes[rv.from + 1])

\* C28: whenever next() returns Ok(inst), inst.width is 2 for a compressed
\* encoding and 4 otherwise and at least inst.width bytes were left in the
\* stream from stream.start; with fewer than 2 bytes left it returns
\* NoBytesLeft; so moving stream.start on by inst.width never passes the end
\* of the byte buffer.
C28_WidthWithinStream ==
    /\ rv.ret.kind = "Ok" =>
          /\ rv.ret.width = (IF WasCompressed THEN 2 ELSE 4)
          /\ rv.ret.width <= LeftBefore
    /\ (rv.ret.kind # "none" /\ LeftBefore < 2) => rv.ret.kind = "NoBytesLeft"
    /\ rv.start <= Len(rv.bytes)

\* the parts of C28 that do hold: the width by encoding, and NoBytesLeft
\* below two bytes
C28_WidthByEncoding ==
    /\ rv.ret.kind = "Ok" => rv.ret.width = (IF WasCompressed THEN 2 ELSE 4)
    /\ (rv.ret.kind # "none" /\ LeftBefore < 2) => rv.ret.kind = "NoBytesLeft"

\* a 4-byte instruction was returned with only 2 or 3 bytes left
C28_Truncated ==
    /\ rv.ret.kind = "Ok"
    /\ rv.ret.width = 4
    /\ LeftBefore \in {2, 3}
    /\ rv.start > Len(rv.bytes)

(***************************************************************************)
(* The command line, src/args.rs.  Cli::parse walks the arguments once;    *)
(* exit! ends the process with a message, modelled as the outcome of the   *)
(* call with the fields as they were at that point.                        *)
(***************************************************************************)

\* the longest argument list
MaxArgs == 5

\* Option<PathBuf> None
NoPath == ""

ABBRV == {"-H", "-L", "-S", "-D", "-C"}
NAMES == {"--help", "--libs", "--names", "--simplify", "--disassemble", "--config"}

\* the arguments the lists are built from: the six short options, one long
\* option, and one word that is no option
CliTokens == {"-H", "-L", "-N", "-S", "-D", "-C", "--names", "obj"}

\* Cli { libs: false, names: false, simplify: false, disassemble: false,
\*       config: None, path: None }
NewCli(args) ==
    [args |-> args, out |-> "none", path |-> NoPath, config |-> NoPath,
     disassemble |-> FALSE, libs |-> FALSE, names |-> FALSE, simplify |-> FALSE]

\* exit!(..) with one of the messages of args.rs
Exit(c, message) == [c EXCEPT !.out = message]

\* self.disassemble ^ self.libs ^ self.names
ModesXor(c) == (c.disassemble # c.libs) # c.names

validate_args(c) ==
    IF (c.disassemble \/ c.libs \/ c.names) /\ c.path = NoPath
    THEN Exit(c, "MissingPath")
    ELSE IF ~ModesXor(c) THEN Exit(c, "InvalidCombination")
    ELSE [c EXCEPT !.out = "Cli"]

\* !NAMES.contains(&path) && !ABBRV.contains(&path)
IsPath(path) == path \notin NAMES /\ path \notin ABBRV

\* the argument after position i, taken by args.next() inside an arm
HasNext(args, i) == i + 1 <= Len(args)

\* cli.path after the arm of a mode option at position i
PathAfter(args, i, c) ==
    IF HasNext(args, i) /\ IsPath(args[i + 1]) THEN args[i + 1] ELSE c.path

\* where the loop goes on after an arm that called args.next()
AfterNext(args, i) == IF HasNext(args, i) THEN i + 2 ELSE i + 1

RECURSIVE parse_loop(_, _, _)
\* the while loop of Cli::parse from argument i on, then validate_args.
\* Both messages of the unknown arm are taken as one outcome.
parse_loop(args, i, c) ==
    IF i > Len(args) THEN validate_args(c)
    ELSE
    CASE args[i] \in {"-H", "--help"} -> Exit(c, "Help")
      [] args[i] \in {"-S", "--simplify"} ->
             parse_loop(args, i + 1, [c EXCEPT !.simplify = TRUE])
      [] args[i] \in {"-N", "--names"} ->
             parse_loop(args, AfterNext(args, i),
                        [c EXCEPT !.names = TRUE, !.path = PathAfter(args, i, c)])
      [] args[i] \in {"-L", "--libs"} ->
             parse_loop(args, AfterNext(args, i),
                        [c EXCEPT !.libs = TRUE, !.path = PathAfter(args, i, c)])
      [] args[i] \in {"-D", "--disassemble"} ->
             parse_loop(args, AfterNext(args, i),
                        [c EXCEPT !.disassemble = TRUE, !.path = PathAfter(args, i, c)])
      [] args[i] \in {"-C", "--config"} ->
             IF HasNext(args, i) /\ IsPath(args[i + 1])
             THEN parse_loop(args, i + 2, [c EXCEPT !.config = args[i + 1]])
             ELSE Exit(c, "MissingConfig")
      [] OTHER -> Exit(c, "UnknownArg")

\* Cli::parse on the arguments after the program name
parse(args) ==
    IF args = << >>
    THEN [NewCli(args) EXCEPT !.disassemble = TRUE, !.out = "Cli"]
    ELSE parse_loop(args, 1, NewCli(args))

\* the program is started with some arguments
CliParse ==
    /\ cli = NoCli
    /\ \E n \in 0 .. MaxArgs :
         \E args \in [1 .. n -> CliTokens] :
            cli' = parse(args)
    /\ UNCHANGED << rv, part, iov, hist, dec, mem, perms, alive, write_ops, sched,
                    pc, writable, groups, result, pre, calls, readback, it, fmt >>

NextArgs == CliParse

\* parsing does not look at the tracee: one page table is enough
InitArgs == Init /\ perms = [p \in Page |-> "rw"]

SpecArgs == InitArgs /\ [][NextArgs]_vars

\* how many of the three modes are set
ModeCount ==
    (IF cli.disassemble THEN 1 ELSE 0) + (IF cli.libs THEN 1 ELSE 0)
        + (IF cli.names THEN 1 ELSE 0)

\* the loop ran through all arguments and validate_args decided
Validated == cli.out \in {"Cli", "MissingPath", "InvalidCombination"}

\* C29: with at least one argument, Cli::parse returns a Cli only if exactly
\* one of disassemble, libs, names is set and an object path is present;
\* with no mode, two modes or all three it exits with the missing-path or
\* the invalid-combination message.
C29_ExactlyOneMode ==
    (cli.args # << >> /\ Validated) =>
        /\ cli.out = "Cli" => (ModeCount = 1 /\ cli.path # NoPath)
        /\ ModeCount # 1 => cli.out \in {"MissingPath", "InvalidCombination"}

\* what validate_args does ensure: an odd number of modes and a path
C29_OddModes ==
    (cli.args # << >> /\ cli.out = "Cli") =>
        (ModeCount \in {1, 3} /\ cli.path # NoPath)

\* all three modes were given with a path, and a Cli came back
C29_AllThree ==
    /\ cli.out = "Cli"
    /\ ModeCount = 3
    /\ cli.path # NoPath

\* the tokens Cli::parse has an arm for
OptionTokens ==
    {"-H", "-L", "-N", "-S", "-D", "-C"} \cup NAMES

ModeTokens == {"-N", "--names", "-L", "--libs", "-D", "--disassemble"}

\* -S or --simplify stands directly behind a mode option
SimplifyAfterMode ==
    \E i \in 2 .. Len(cli.args) :
        /\ cli.args[i] \in {"-S", "--simplify"}
        /\ cli.args[i - 1] \in ModeTokens

\* C30: Cli::parse never stores an option token (-H, -L, -N, -S, -D, -C or
\* a long form) as the object path or as the config path, and an option
\* that directly follows -N, -L or -D is still processed as an option: a
\* Cli returned for such arguments has simplify set when -S follows a mode.
C30_OptionsNeverPaths ==
    /\ cli.path \notin OptionTokens
    /\ cli.config \notin OptionTokens
    /\ (cli.out = "Cli" /\ SimplifyAfterMode) => cli.simplify

\* what the membership tests do ensure: no token of NAMES or ABBRV is stored
C30_ListedNeverPaths ==
    /\ cli.path \notin NAMES \cup ABBRV
    /\ cli.config \notin NAMES \cup ABBRV

\* "-N" came back as the object path
C30_NamesAsPath ==
    /\ cli.out = "Cli"
    /\ cli.path = "-N"

\* -S behind a mode option was dropped
C30_SimplifyDropped ==
    /\ cli.out = "Cli"
    /\ SimplifyAfterMode
    /\ ~cli.simplify

====
